---- MODULE Spec2Model ----
(***************************************************************************)
(* A model of mkcdj's concurrent track-processing core: the playlist       *)
(* transaction (withJSONFile), the playlist operations, the batch          *)
(* scheduler (each) and the track processor (track, convert).              *)
(*                                                                         *)
(* BPM values and preset bounds are floats with two decimals in the        *)
(* source; here they are integers counting hundredths of a BPM.            *)
(***************************************************************************)
EXTENDS Integers, Sequences, FiniteSets, TLC

(***************************************************************************)
(* Bounds of the model.                                                    *)
(***************************************************************************)
\* Largest collection an Analyze may grow the playlist to.
MaxTracks == 2
\* Number of transactions (processes or goroutines calling withJSONFile).
NumTx == 2

Tx == 1..NumTx

(***************************************************************************)
(* The data model.                                                         *)
(***************************************************************************)
\* Audio files known to the model, as absolute paths.
Paths == {"/m/b.flac", "/n/a.flac"}

\* filepath.Base of each path.
Base(p) == CASE p = "/m/b.flac" -> "b.flac"
             [] p = "/n/a.flac" -> "a.flac"
             [] p = "/n/b.flac" -> "b.flac"

\* File contents, and the marker of a path that does not resolve to a file.
Contents == {"c1", "c2"}
NoFile == "nofile"

\* sha256 of a content, hex encoded: injective on the contents of the model.
Sha256(c) == CASE c = "c1" -> "h1"
               [] c = "c2" -> "h2"

\* The preset table, default preset first.
Presets == <<
  [Name |-> "default", Min |-> 4000,  Max |-> 22000],
  [Name |-> "dnb",     Min |-> 16500, Max |-> 17999],
  [Name |-> "jungle",  Min |-> 14800, Max |-> 16499],
  [Name |-> "dubstep", Min |-> 13800, Max |-> 14799],
  [Name |-> "techno",  Min |-> 12800, Max |-> 13799],
  [Name |-> "house",   Min |-> 11500, Max |-> 12999],
  [Name |-> "hiphop",  Min |-> 6000,  Max |-> 11499],
  [Name |-> "dub",     Min |-> 6000,  Max |-> 8999] >>

\* The zero value of Preset.
ZeroPreset == [Name |-> "", Min |-> 0, Max |-> 0]

\* strings.Compare on the strings the model sorts by, through their rank in
\* byte-wise lexicographic order.
StrRank(s) == CASE s = ""        -> 0
                [] s = "a.flac"  -> 1
                [] s = "b.flac"  -> 2
                [] s = "default" -> 3
                [] s = "dnb"     -> 4
                [] s = "dub"     -> 5
                [] s = "dubstep" -> 6
                [] s = "hiphop"  -> 7
                [] s = "house"   -> 8
                [] s = "jungle"  -> 9
                [] s = "techno"  -> 10

StringsCompare(a, b) == IF StrRank(a) < StrRank(b) THEN -1
                        ELSE IF StrRank(a) > StrRank(b) THEN 1 ELSE 0

\* Presets a caller passes to Analyze, and the results a BPM scanner reports.
ArgPresets == {Presets[1], Presets[2]}
BPMs == {10000, 17400}
\* Outcome of the analysis leg for a path: a BPM, or the failure of the
\* external pipeline or of the scanner.
PipeErr == [err |-> TRUE, bpm |-> 0]
Outcomes == [Paths -> {[err |-> FALSE, bpm |-> b] : b \in BPMs} \cup {PipeErr}]
\* The same with the stub scanner of the tests, which reports 100 for any stream.
StubOutcomes == [Paths -> {[err |-> FALSE, bpm |-> 10000], PipeErr}]

\* The zero value of Track.
ZeroTrack == [Path |-> "", Hash |-> "", Preset |-> ZeroPreset, BPM |-> 0]

(***************************************************************************)
(* Presets.                                                                *)
(***************************************************************************)
FirstOfTable(name, i) == [preset |-> Presets[1], err |-> FALSE]

RECURSIVE FromNameLoop(_, _)
FromNameLoop(name, i) ==
  IF i > Len(Presets) THEN [preset |-> Presets[1], err |-> TRUE]
  ELSE IF Presets[i].Name = name THEN [preset |-> Presets[i], err |-> FALSE]
  ELSE FromNameLoop(name, i + 1)

PresetFromName(name) == FromNameLoop(name, 1)

\* A float64 is a whole number of hundredths (of thousandths where it is
\* yet to be rounded), or NaN. An ordered comparison with NaN is false.
NaN == -1
GtFloat(a, b) == a # NaN /\ b # NaN /\ a > b

\* math.Round(bpm*100)/100 of a BPM given in thousandths, in hundredths.
RoundCenti(milli) == IF milli = NaN THEN NaN ELSE (milli + 5) \div 10

RECURSIVE FromBPMLoop(_, _, _)
FromBPMLoop(rounded, i, match) ==
  IF i > Len(Presets) THEN match
  ELSE LET p == Presets[i] IN
       IF GtFloat(p.Min, rounded) \/ GtFloat(rounded, p.Max)
       THEN FromBPMLoop(rounded, i + 1, match)
       ELSE IF match.Name = "" THEN FromBPMLoop(rounded, i + 1, p)
       ELSE IF p.Max - p.Min < match.Max - match.Min THEN FromBPMLoop(rounded, i + 1, p)
       ELSE FromBPMLoop(rounded, i + 1, match)

\* bpm is already a whole number of hundredths, so math.Round(bpm*100)/100 is bpm.
PresetFromBPM(bpm) ==
  LET match == FromBPMLoop(bpm, 1, ZeroPreset) IN
  IF match.Name = "" THEN [preset |-> Presets[1], err |-> TRUE]
  ELSE [preset |-> match, err |-> FALSE]

(***************************************************************************)
(* The persisted format.                                                   *)
(***************************************************************************)
MarshalTrack(t) == [path |-> t.Path, hash |-> t.Hash, preset |-> t.Preset.Name, bpm |-> t.BPM]

AlwaysDefault(name) == [preset |-> Presets[1], err |-> FALSE]
ByNameOnly(name) == PresetFromName(name)
UnknownIsDefault(name) ==
  IF name = "" \/ PresetFromName(name).err THEN [preset |-> Presets[1], err |-> FALSE]
  ELSE PresetFromName(name)
UnmarshalPreset(name) ==
  IF name = "" THEN [preset |-> Presets[1], err |-> FALSE]
  ELSE PresetFromName(name)

UnmarshalTrack(j) ==
  [Path |-> j.path, Hash |-> j.hash, Preset |-> UnmarshalPreset(j.preset).preset, BPM |-> j.bpm]

\* The resource: it does not exist, it holds zero bytes, or it holds a JSON array.
MissingFile == [kind |-> "missing", tracks |-> <<>>]
EmptyFile == [kind |-> "empty", tracks |-> <<>>]
JSONFile(js) == [kind |-> "json", tracks |-> js]

Encode(tracks) == JSONFile([i \in 1..Len(tracks) |-> MarshalTrack(tracks[i])])

\* json.NewDecoder(file).Decode: io.EOF on zero bytes, the error of
\* UnmarshalJSON on an unknown preset name.
Decode(f) ==
  IF f.kind # "json" THEN [tracks |-> <<>>, err |-> TRUE]
  ELSE IF \E i \in 1..Len(f.tracks) : UnmarshalPreset(f.tracks[i].preset).err
    THEN [tracks |-> <<>>, err |-> TRUE]
  ELSE [tracks |-> [i \in 1..Len(f.tracks) |-> UnmarshalTrack(f.tracks[i])], err |-> FALSE]

(***************************************************************************)
(* The canonical order.                                                    *)
(***************************************************************************)
Less(a, b) ==
  LET p == StringsCompare(a.Preset.Name, b.Preset.Name) IN
  IF p # 0 THEN p = -1
  ELSE StringsCompare(Base(a.Path), Base(b.Path)) = -1

\* Stable insertion: x goes before the first element it is less than.
RECURSIVE InsertStable(_, _)
InsertStable(s, x) ==
  IF s = <<>> THEN <<x>>
  ELSE IF Less(x, Head(s)) THEN <<x>> \o s
  ELSE <<Head(s)>> \o InsertStable(Tail(s), x)

RECURSIVE SortStable(_, _)
SortStable(done, rest) ==
  IF rest = <<>> THEN done
  ELSE SortStable(InsertStable(done, Head(rest)), Tail(rest))

order(tracks) == SortStable(<<>>, tracks)

(***************************************************************************)
(* The track processor, as a function of the file system and of the        *)
(* outcome of the analysis leg (its legs are modelled one by one below).   *)
(***************************************************************************)
\* hash: os.Open fails on a path that is not a file.
hash(fsys, path) ==
  IF fsys[path] = NoFile THEN [val |-> "", err |-> TRUE]
  ELSE [val |-> Sha256(fsys[path]), err |-> FALSE]

\* analyze: os.Open, the external pipeline, the scanner.
analyze(fsys, path, ext) ==
  IF fsys[path] = NoFile \/ ext[path].err THEN [val |-> 0, err |-> TRUE]
  ELSE [val |-> ext[path].bpm, err |-> FALSE]

trackOfHashAlone(fsys, path, preset, ext) ==
  LET h == hash(fsys, path) IN
  IF h.err THEN [track |-> ZeroTrack, err |-> TRUE]
  ELSE [track |-> [Path |-> path, Hash |-> h.val, Preset |-> preset, BPM |-> 0],
        err |-> FALSE]

track(fsys, path, preset, ext) ==
  LET h == hash(fsys, path)
      b == analyze(fsys, path, ext) IN
  IF h.err \/ b.err THEN [track |-> ZeroTrack, err |-> TRUE]
  ELSE [track |-> [Path |-> path, Hash |-> h.val, Preset |-> preset, BPM |-> b.val],
        err |-> FALSE]

\* status(t) != fail
StatSucceeds(fsys, t) == TRUE
Exists(fsys, t) == fsys[t.Path] # NoFile

(***************************************************************************)
(* The transformations the playlist operations hand to withJSONFile.       *)
(***************************************************************************)
Failed == [tracks |-> <<>>, err |-> TRUE]
Ok(tracks) == [tracks |-> tracks, err |-> FALSE]

\* List and Files: print every track, return the collection as decoded.
ListNothing(tracks) == Ok(<<>>)

\* List and Files print the tracks and return them as they are.
ListF(tracks) == Ok(tracks)

PruneF(old, fsys) == Ok(SelectSeq(old, LAMBDA t : Exists(fsys, t)))

NeverFound(tracks, h, i) == 0

\* Index of the first track with the given hash, 0 when there is none.
RECURSIVE FindHash(_, _, _)
FindHash(tracks, h, i) ==
  IF i > Len(tracks) THEN 0
  ELSE IF tracks[i].Hash = h THEN i
  ELSE FindHash(tracks, h, i + 1)

AnalyzeF(tracks, fsys, path, preset, ext) ==
  LET r == track(fsys, path, preset, ext) IN
  IF r.err THEN Failed
  ELSE LET i == FindHash(tracks, r.track.Hash, 1) IN
       IF i # 0 THEN Ok(order([tracks EXCEPT ![i] = r.track]))
       ELSE Ok(order(Append(tracks, r.track)))

\* The job of Refresh for one track.
RefreshJobStale(fsys, t, ext) == [track |-> t, err |-> FALSE]
RefreshJob(fsys, t, ext) ==
  LET p == IF t.Preset.Name = "" THEN PresetFromBPM(t.BPM).preset ELSE t.Preset IN
  track(fsys, t.Path, p, ext)

\* Permutations of 1..n: the orders in which the jobs of a batch complete.
Perms(n) == {f \in [1..n -> 1..n] : \A i, j \in 1..n : f[i] = f[j] => i = j}

\* Refresh: the results of the jobs arrive in completion order `perm`.
RefreshF(old, fsys, ext, perm) ==
  LET res == [i \in 1..Len(old) |-> RefreshJob(fsys, old[perm[i]], ext)] IN
  IF \E i \in 1..Len(old) : res[i].err THEN Failed
  ELSE Ok(order([i \in 1..Len(old) |-> res[i].track]))

\* Compile: a job fails when the source cannot be opened or a pipeline fails.
CompileF(tracks, fsys, ext) ==
  IF \E i \in 1..Len(tracks) : fsys[tracks[i].Path] = NoFile \/ ext[tracks[i].Path].err
  THEN Failed
  ELSE Ok(tracks)

\* The operations a transaction may run, with the arguments the caller fixes.
NoOp == [kind |-> "none", path |-> "", preset |-> ZeroPreset]
Ops == {[kind |-> "analyze", path |-> p, preset |-> q] : p \in Paths, q \in ArgPresets}
       \cup {[kind |-> k, path |-> "", preset |-> ZeroPreset] :
               k \in {"refresh", "prune", "list", "files", "compile"}}

\* What a transformation reads besides the collection: the file system, the
\* outcome of the external pipelines, the completion order of a batch.
NoEnv == [fsys |-> <<>>, ext |-> <<>>, perm |-> <<>>]

\* The transformation of operation op, applied to the decoded collection.
Apply(op, tracks, env) ==
  CASE op.kind = "analyze" -> AnalyzeF(tracks, env.fsys, op.path, op.preset, env.ext)
    [] op.kind = "refresh" -> RefreshF(tracks, env.fsys, env.ext, env.perm)
    [] op.kind = "prune"   -> PruneF(tracks, env.fsys)
    [] op.kind = "compile" -> CompileF(tracks, env.fsys, env.ext)
    [] OTHER               -> ListF(tracks)

(***************************************************************************)
(* The state.                                                              *)
(***************************************************************************)
VARIABLES
  file,     \* the persisted resource
  fs,       \* the audio files: path -> content, or NoFile
  crashed,  \* a goroutine panicked: the process is gone
  \* -- the playlist transaction, step by step
  holders,  \* the transactions whose open file description holds the flock
  txPc,     \* where each transaction stands in withJSONFile
  txOp,     \* the operation each transaction runs
  txData,   \* the collection it decoded
  txOut,    \* the replacement its transformation returned
  txRet,    \* what withJSONFile is about to return
  txEnv,    \* what its transformation read besides the collection
  txSnap,   \* history: the resource as it was when the lock was acquired
  serial,   \* history: the committed transformations applied one after another
  \* -- the playlist operations, one whole transaction at a time
  lastAnalyzed, \* history: the track of the preceding operation, a successful Analyze
  \* -- the batch scheduler
  eSize,    \* size, the number of workers
  eLen,     \* len(tracks); the tracks are named by their index
  eFail,    \* the tracks for which do returns an error
  jobs,     \* the jobs channel: its buffer and whether it is closed
  sink,     \* the sink channel
  wg,       \* the counter of the WaitGroup
  wPc,      \* where each worker stands
  wJob,     \* the track a worker holds
  gPc,      \* where each itself ("main") and the feeder stand
  fIdx,     \* the index of the next track the feeder sends
  mRet,     \* the error each returns: 0 for nil, else the track that failed
  once,     \* the state of the sync.Once
  invoked,  \* history: how many times do was called for each track
  \* -- the track processor and the per-track export
  lKind,    \* "track" or "convert"
  legPc,    \* where each leg stands
  legOut,   \* what each leg computed: a value and an error
  valCh,    \* the value channels hc and bc
  errCh,    \* the sink channel of errors
  lWg,      \* the counter of the WaitGroup
  lPc,      \* where track or convert itself stands
  lRet,     \* what it returns
  \* -- the transformation of Refresh around its batch
  rOld,     \* the collection Refresh was handed
  rExt,     \* the outcome of the analysis leg for each path
  out,      \* the out channel of refreshed tracks
  rTracks,  \* the slice the collector appends to
  cPc,      \* where the collector goroutine stands
  cItem,    \* the track the collector has received
  rPc,      \* where the transformation itself stands
  rRet,     \* what it returns
  \* -- the export of Compile
  xTracks,  \* the collection Compile exports
  xSize,    \* the number of workers
  xJob,     \* where the convert of each track stands
  xPc,      \* where each leg (build) of each convert stands
  xErr,     \* the error each build returned
  xFiles,   \* the destination files that exist
  \* -- the functions of the package, called on their own
  call      \* the last call: the function, its arguments, what it returned

txVars == <<holders, txPc, txOp, txData, txOut, txRet, txEnv, txSnap, serial>>
opVars == <<lastAnalyzed>>
eachVars == <<eSize, eLen, eFail, jobs, sink, wg, wPc, wJob, gPc, fIdx, mRet, once, invoked>>
legVars == <<lKind, legPc, legOut, valCh, errCh, lWg, lPc, lRet>>
refVars == <<rOld, rExt, out, rTracks, cPc, cItem, rPc, rRet>>

expVars == <<xTracks, xSize, xJob, xPc, xErr, xFiles>>

vars == <<file, fs, crashed, txVars, opVars, eachVars, legVars, refVars, expVars, call>>

\* Pool sizes runtime.NumCPU()/2 and runtime.NumCPU()/3 may take.
MaxPool == 2
PoolSizes == 0..MaxPool

(***************************************************************************)
(* The playlist transaction, one step of withJSONFile at a time.           *)
(***************************************************************************)
\* flock(LOCK_EX) returns once no other open file description holds the lock.
FlockShared(h) == TRUE
FlockEx(h) == h = {}

\* syscall.Flock(LOCK_UN), deferred: h without the lock of t. The lock of a
\* process that ends goes with it.
FlockKept(h, t) == h
FlockUn(h, t) == h \ {t}

\* The replacement is written only when the transformation returned no error.
CommitsAlways(r) == TRUE
Commits(r) == ~r.err

\* each may not return at all: with no worker it blocks for ever on a
\* non-empty collection, and a teardown started by the error of a job closes
\* the jobs channel under a feeder that still has tracks to send. The Go
\* runtime then ends the process. errs is the outcome of the jobs in
\* submission order.
EachMayAbort(size, errs) ==
  \/ size = 0 /\ Len(errs) > 0
  \/ size > 0 /\ \E i \in 1..(Len(errs) - 1) : errs[i]

\* Outcome of the jobs of a batch operation, in submission order.
JobErrs(op, tracks, env) ==
  [i \in 1..Len(tracks) |->
     IF op.kind = "refresh" THEN RefreshJob(env.fsys, tracks[i], env.ext).err
     ELSE env.fsys[tracks[i].Path] = NoFile \/ env.ext[tracks[i].Path].err]

ResetTx(t) ==
  /\ txOp' = [txOp EXCEPT ![t] = NoOp]
  /\ txData' = [txData EXCEPT ![t] = <<>>]
  /\ txOut' = [txOut EXCEPT ![t] = <<>>]
  /\ txRet' = [txRet EXCEPT ![t] = "none"]
  /\ txEnv' = [txEnv EXCEPT ![t] = NoEnv]
  /\ txSnap' = [txSnap EXCEPT ![t] = MissingFile]

\* os.OpenFile(O_RDWR|O_CREATE): a missing resource is created with zero bytes.
TxOpen(t, op) ==
  /\ txPc[t] = "idle"
  /\ txPc' = [txPc EXCEPT ![t] = "opened"]
  /\ txOp' = [txOp EXCEPT ![t] = op]
  /\ file' = IF file.kind = "missing" THEN EmptyFile ELSE file
  /\ UNCHANGED <<fs, holders, txData, txOut, txRet, txEnv, txSnap, serial>>
  /\ UNCHANGED <<crashed, opVars, eachVars, legVars, refVars, expVars, call>>

\* syscall.Flock(LOCK_EX)
TxLock(t) ==
  /\ txPc[t] = "opened"
  /\ FlockEx(holders \ {t})
  /\ holders' = holders \cup {t}
  /\ txPc' = [txPc EXCEPT ![t] = "locked"]
  /\ txSnap' = [txSnap EXCEPT ![t] = file]
  /\ UNCHANGED <<file, fs, txOp, txData, txOut, txRet, txEnv, serial>>
  /\ UNCHANGED <<crashed, opVars, eachVars, legVars, refVars, expVars, call>>

\* json.NewDecoder(file).Decode(&data)
TxDecode(t) ==
  /\ txPc[t] = "locked"
  /\ LET d == Decode(file) IN
     IF d.err
     THEN /\ txRet' = [txRet EXCEPT ![t] = "decode_error"]
          /\ txPc' = [txPc EXCEPT ![t] = "unlock"]
          /\ UNCHANGED txData
     ELSE /\ txData' = [txData EXCEPT ![t] = d.tracks]
          /\ txPc' = [txPc EXCEPT ![t] = "decoded"]
          /\ UNCHANGED txRet
  /\ UNCHANGED <<file, fs, holders, txOp, txOut, txEnv, txSnap, serial>>
  /\ UNCHANGED <<crashed, opVars, eachVars, legVars, refVars, expVars, call>>

\* replace, err := f(data): the transformation runs to its end.
TxTransform(t, ext, perm) ==
  /\ txPc[t] = "decoded"
  /\ LET env == [fsys |-> fs, ext |-> ext, perm |-> perm]
         r == Apply(txOp[t], txData[t], env) IN
     /\ Len(r.tracks) <= MaxTracks
     /\ txEnv' = [txEnv EXCEPT ![t] = env]
     /\ IF Commits(r)
        THEN /\ txOut' = [txOut EXCEPT ![t] = r.tracks]
             /\ txPc' = [txPc EXCEPT ![t] = "transformed"]
             /\ UNCHANGED txRet
        ELSE /\ txRet' = [txRet EXCEPT ![t] = IF r.err THEN "f_error" ELSE "none"]
             /\ txPc' = [txPc EXCEPT ![t] = "unlock"]
             /\ UNCHANGED txOut
  /\ UNCHANGED <<file, fs, holders, txOp, txData, txSnap, serial>>
  /\ UNCHANGED <<crashed, opVars, eachVars, legVars, refVars, expVars, call>>

\* The batch of a Refresh or Compile does not return and the process ends:
\* the kernel closes its descriptors, which drops the lock.
TxAbort(t, ext, size) ==
  /\ txPc[t] = "decoded"
  /\ txOp[t].kind \in {"refresh", "compile"}
  /\ EachMayAbort(size, JobErrs(txOp[t], txData[t], [fsys |-> fs, ext |-> ext, perm |-> <<>>]))
  /\ holders' = FlockUn(holders, t)
  /\ txPc' = [txPc EXCEPT ![t] = "idle"]
  /\ ResetTx(t)
  /\ UNCHANGED <<file, fs, serial>>
  /\ UNCHANGED <<crashed, opVars, eachVars, legVars, refVars, expVars, call>>

\* file.Truncate(0); file.Seek(0, 0)
TxTruncate(t) ==
  /\ txPc[t] = "transformed"
  /\ file' = EmptyFile
  /\ txPc' = [txPc EXCEPT ![t] = "truncated"]
  /\ UNCHANGED <<fs, holders, txOp, txData, txOut, txRet, txEnv, txSnap, serial>>
  /\ UNCHANGED <<crashed, opVars, eachVars, legVars, refVars, expVars, call>>

\* json.NewEncoder(file).Encode(replace)
TxEncode(t) ==
  /\ txPc[t] = "truncated"
  /\ file' = Encode(txOut[t])
  /\ serial' = Apply(txOp[t], serial, txEnv[t]).tracks
  /\ txRet' = [txRet EXCEPT ![t] = "ok"]
  /\ txPc' = [txPc EXCEPT ![t] = "unlock"]
  /\ UNCHANGED <<fs, holders, txOp, txData, txOut, txEnv, txSnap>>
  /\ UNCHANGED <<crashed, opVars, eachVars, legVars, refVars, expVars, call>>

\* The deferred syscall.Flock(LOCK_UN) and file.Close(), then the return.
TxUnlock(t) ==
  /\ txPc[t] = "unlock"
  /\ holders' = FlockUn(holders, t)
  /\ txPc' = [txPc EXCEPT ![t] = "idle"]
  /\ ResetTx(t)
  /\ UNCHANGED <<file, fs, serial>>
  /\ UNCHANGED <<crashed, opVars, eachVars, legVars, refVars, expVars, call>>

\* The audio files before the first transaction: two files of different content.
InitFs == [p \in Paths |-> IF p = "/m/b.flac" THEN "c1" ELSE "c2"]

\* The resource before the first transaction: absent, of zero bytes, or an
\* empty array.
InitFiles == {MissingFile, EmptyFile, JSONFile(<<>>)}

\* The parts of the state a specification does not use stay as they are here.
TxAtRest ==
  /\ holders = {}
  /\ txPc = [t \in Tx |-> "idle"]
  /\ txOp = [t \in Tx |-> NoOp]
  /\ txData = [t \in Tx |-> <<>>]
  /\ txOut = [t \in Tx |-> <<>>]
  /\ txRet = [t \in Tx |-> "none"]
  /\ txEnv = [t \in Tx |-> NoEnv]
  /\ txSnap = [t \in Tx |-> MissingFile]
  /\ serial = <<>>

OpsAtRest == lastAnalyzed = ZeroTrack

EachAtRest ==
  /\ eSize = 0
  /\ eLen = 0
  /\ eFail = {}
  /\ jobs = [buf |-> <<>>, closed |-> FALSE]
  /\ sink = [buf |-> <<>>, closed |-> FALSE]
  /\ wg = 0
  /\ wPc = <<>>
  /\ wJob = <<>>
  /\ gPc = [main |-> "returned", feeder |-> "exit"]
  /\ fIdx = 1
  /\ mRet = 0
  /\ once = "done"
  /\ invoked = <<>>

LegsAtRest ==
  /\ lKind = "none"
  /\ legPc = <<>>
  /\ legOut = <<>>
  /\ valCh = <<>>
  /\ errCh = [buf |-> <<>>, closed |-> FALSE]
  /\ lWg = 0
  /\ lPc = "returned"
  /\ lRet = [err |-> FALSE, vals |-> <<>>]

RefreshAtRest ==
  /\ rOld = <<>>
  /\ rExt = <<>>
  /\ out = [buf |-> <<>>, closed |-> FALSE]
  /\ rTracks = <<>>
  /\ cPc = "done"
  /\ cItem = ZeroTrack
  /\ rPc = "returned"
  /\ rRet = Ok(<<>>)

ExportAtRest ==
  /\ xTracks = <<>>
  /\ xSize = 0
  /\ xJob = <<>>
  /\ xPc = <<>>
  /\ xErr = <<>>
  /\ xFiles = {}

\* No function has been called.
NoCall == [fn |-> "none"]
CallAtRest == call = NoCall

InitTx ==
  /\ file \in InitFiles
  /\ fs = InitFs
  /\ crashed = FALSE
  /\ TxAtRest
  /\ OpsAtRest
  /\ EachAtRest
  /\ LegsAtRest
  /\ RefreshAtRest
  /\ ExportAtRest
  /\ CallAtRest

NextTx ==
  \/ \E t \in Tx, op \in Ops : TxOpen(t, op)
  \/ \E t \in Tx : TxLock(t)
  \/ \E t \in Tx : TxDecode(t)
  \/ \E t \in Tx, ext \in StubOutcomes : \E perm \in Perms(Len(txData[t])) : TxTransform(t, ext, perm)
  \/ \E t \in Tx, ext \in StubOutcomes, size \in PoolSizes : TxAbort(t, ext, size)
  \/ \E t \in Tx : TxTruncate(t)
  \/ \E t \in Tx : TxEncode(t)
  \/ \E t \in Tx : TxUnlock(t)

\* Concurrent transactions on one resource.
SpecTx == InitTx /\ [][NextTx]_vars

(***************************************************************************)
(* Claims about the playlist transaction, checked under SpecTx.            *)
(***************************************************************************)

\* C1: concurrent transactions are serialised. The persisted collection is
\* at any time the result of applying the committed transformations one
\* after another in the order of their commits, and a transaction about to
\* write replaces exactly the state it decoded when it acquired the lock, so
\* that no update is lost.
C1_SerialCommits ==
  /\ file.kind = "json" => file = Encode(serial)
  /\ \A t \in Tx : txPc[t] = "transformed" =>
       /\ file = txSnap[t]
       /\ txData[t] = Decode(txSnap[t]).tracks

\* Two Analyze of files with different content contended for the lock and
\* both are in the collection as the second one commits.
C1_Witness ==
  \E t, u \in Tx :
    /\ t # u
    /\ txPc[t] = "unlock" /\ txRet[t] = "ok" /\ txOp[t].kind = "analyze"
    /\ txPc[u] = "opened" /\ txOp[u].kind = "analyze"
    /\ Len(file.tracks) = 2
    /\ file.tracks[1].hash # file.tracks[2].hash
    /\ Len(txData[t]) = 1

\* C2: at most one transaction holds the lock; a transaction holds it from
\* before it decodes until after it has rewritten the resource, its whole
\* transformation included; no transaction is past the lock while another
\* one has truncated the resource and not yet rewritten it.
C2_ExclusiveLock ==
  /\ Cardinality(holders) <= 1
  /\ \A t \in Tx :
       txPc[t] \in {"locked", "decoded", "transformed", "truncated", "unlock"} => t \in holders
  /\ \A t, u \in Tx :
       (t # u /\ txPc[t] = "truncated") => txPc[u] \in {"idle", "opened"}

\* A Refresh has truncated the resource while another transaction waits for
\* the lock.
C2_Witness ==
  \E t, u \in Tx :
    /\ txPc[t] = "truncated" /\ txOp[t].kind = "refresh" /\ Len(txData[t]) = 2
    /\ file = EmptyFile
    /\ txPc[u] = "opened"

\* C3: a transaction whose transformation returned an error returns that
\* error with the resource as it was when the lock was acquired; only a
\* transformation that returned no error gets to truncate and write.
C3_ErrorNoWrite ==
  \A t \in Tx :
    /\ (txPc[t] = "unlock" /\ txRet[t] = "f_error") => file = txSnap[t]
    /\ txPc[t] \in {"transformed", "truncated"} => ~Apply(txOp[t], txData[t], txEnv[t]).err

\* A Refresh of two tracks failed on one job while the other one succeeded.
C3_Witness ==
  \E t \in Tx :
    /\ txPc[t] = "unlock" /\ txRet[t] = "f_error"
    /\ txOp[t].kind = "refresh"
    /\ LET errs == JobErrs(txOp[t], txData[t], txEnv[t]) IN
       /\ Len(errs) = 2
       /\ \E i, j \in 1..2 : errs[i] /\ ~errs[j]
    /\ Len(file.tracks) = 2

\* C9: a transaction on a resource that does not exist or holds zero bytes
\* decodes an empty collection and goes on without a decoding error.
C9_EmptyResourceDecodes ==
  \A t \in Tx :
    (txPc[t] = "unlock" /\ txSnap[t].kind = "empty") => txRet[t] # "decode_error"

(***************************************************************************)
(* The playlist operations, each one a whole transaction: the lock lets    *)
(* them run one after another only.                                        *)
(***************************************************************************)
\* withJSONFile(path, f) from open to return, on resource f0.
Transact(f0, op, env) ==
  LET opened == IF f0.kind = "missing" THEN EmptyFile ELSE f0
      d == Decode(opened) IN
  IF d.err THEN [file |-> opened, ret |-> "decode_error", out |-> <<>>]
  ELSE LET r == Apply(op, d.tracks, env) IN
       IF Commits(r) THEN [file |-> Encode(r.tracks), ret |-> "ok", out |-> r.tracks]
       ELSE [file |-> opened, ret |-> "f_error", out |-> <<>>]

Env(ext, perm) == [fsys |-> fs, ext |-> ext, perm |-> perm]

AnalyzeOp(path, preset) == [kind |-> "analyze", path |-> path, preset |-> preset]
PlainOp(kind) == [kind |-> kind, path |-> "", preset |-> ZeroPreset]

Analyze(path, preset, ext) ==
  LET env == Env(ext, <<>>)
      res == Transact(file, AnalyzeOp(path, preset), env) IN
  /\ Len(res.file.tracks) <= MaxTracks
  /\ file' = res.file
  /\ lastAnalyzed' = IF res.ret = "ok" THEN track(fs, path, preset, ext).track
                     ELSE lastAnalyzed
  /\ UNCHANGED <<fs, crashed, txVars, eachVars, legVars, refVars, expVars, call>>

Refresh(ext, perm) ==
  /\ file' = Transact(file, PlainOp("refresh"), Env(ext, perm)).file
  /\ lastAnalyzed' = IF file' # file THEN ZeroTrack ELSE lastAnalyzed
  /\ UNCHANGED <<fs, crashed, txVars, eachVars, legVars, refVars, expVars, call>>

Prune ==
  /\ file' = Transact(file, PlainOp("prune"), Env(<<>>, <<>>)).file
  /\ lastAnalyzed' = IF file' # file THEN ZeroTrack ELSE lastAnalyzed
  /\ UNCHANGED <<fs, crashed, txVars, eachVars, legVars, refVars, expVars, call>>

List ==
  /\ file' = Transact(file, PlainOp("list"), Env(<<>>, <<>>)).file
  /\ UNCHANGED <<fs, lastAnalyzed, crashed, txVars, eachVars, legVars, refVars, expVars, call>>

Files ==
  /\ file' = Transact(file, PlainOp("files"), Env(<<>>, <<>>)).file
  /\ UNCHANGED <<fs, lastAnalyzed, crashed, txVars, eachVars, legVars, refVars, expVars, call>>

Compile(ext) ==
  /\ file' = Transact(file, PlainOp("compile"), Env(ext, <<>>)).file
  /\ UNCHANGED <<fs, lastAnalyzed, crashed, txVars, eachVars, legVars, refVars, expVars, call>>

\* Outside the program an audio file is written, replaced or removed.
EnvWrite(p, c) ==
  /\ fs[p] # c
  /\ fs' = [fs EXCEPT ![p] = c]
  /\ UNCHANGED <<file, lastAnalyzed, crashed, txVars, eachVars, legVars, refVars, expVars, call>>

InitOps ==
  /\ file \in InitFiles
  /\ fs = InitFs
  /\ crashed = FALSE
  /\ TxAtRest
  /\ OpsAtRest
  /\ EachAtRest
  /\ LegsAtRest
  /\ RefreshAtRest
  /\ ExportAtRest
  /\ CallAtRest

NextOps ==
  \/ \E p \in Paths, q \in ArgPresets, ext \in Outcomes : Analyze(p, q, ext)
  \/ \E ext \in Outcomes : \E perm \in Perms(Len(file.tracks)) : Refresh(ext, perm)
  \/ Prune
  \/ List
  \/ Files
  \/ \E ext \in Outcomes : Compile(ext)
  \/ \E p \in Paths, c \in Contents \cup {NoFile} : EnvWrite(p, c)

\* Operations one after another, the audio files changing in between.
SpecOps == InitOps /\ [][NextOps]_vars

(***************************************************************************)
(* Claims about the playlist operations, checked under SpecOps.            *)
(***************************************************************************)
\* Number of persisted tracks with hash h.
CountHash(f, h) == Cardinality({i \in 1..Len(f.tracks) : f.tracks[i].hash = h})

\* C7: no two tracks of the persisted collection have the same hash,
\* whatever Analyze, Refresh and Prune ran and however the audio files
\* changed in between.
C7_UniqueHashes ==
  \A i, j \in 1..Len(file.tracks) : i # j => file.tracks[i].hash # file.tracks[j].hash

\* C8: an Analyze that follows an Analyze of the same content leaves exactly
\* one track with the hash of that content, that track carries the path,
\* preset and bpm of the second analysis, and the collection keeps its size.
C8_SecondAnalyzeReplaces ==
  [][\A p \in Paths, q \in ArgPresets, ext \in Outcomes :
       LET new == track(fs, p, q, ext) IN
       ( /\ Analyze(p, q, ext)
         /\ Transact(file, AnalyzeOp(p, q), Env(ext, <<>>)).ret = "ok"
         /\ lastAnalyzed # ZeroTrack
         /\ lastAnalyzed.Hash = new.track.Hash )
       => ( /\ CountHash(file', new.track.Hash) = 1
            /\ \E i \in 1..Len(file'.tracks) : file'.tracks[i] = MarshalTrack(new.track)
            /\ Len(file'.tracks) = Len(file.tracks) )]_vars

(***************************************************************************)
(* The batch scheduler, each(size, tracks, do), one goroutine step at a    *)
(* time. The goroutines are each itself ("main"), the feeder and the       *)
(* workers 1..size. A track is named by its index in the input.            *)
(***************************************************************************)
\* Largest input of a batch.
MaxJobs == 3

Worker == 1..eSize
NilErr == 0

\* What do returns for track i: the error of that track, or nil.
Do(i) == IF i \in eFail THEN i ELSE NilErr

\* The feeder ranges over the input: the track after track i.
FeederSkips(i) == i + 2
FeederNext(i) == i + 1

\* A send on a channel of capacity cap goes through when the buffer has
\* room. With capacity 0 it would need a receiver at the same moment; the
\* only receivers of jobs are the workers and there are none when size = 0.
HasRoom(ch, cap) == Len(ch.buf) < cap

\* Where a goroutine goes when once.Do(teardown) returns.
Parked(g) == "parked"
After(g) == IF g = "main" THEN "returned" ELSE "exit"

EachFrame == UNCHANGED <<file, fs, eSize, eLen, eFail, txVars, opVars, legVars, refVars, expVars, call>>

\* jobs <- t
FeederSend ==
  /\ ~crashed
  /\ gPc.feeder = "send"
  /\ fIdx <= eLen
  /\ IF jobs.closed
     THEN \* send on a closed channel
          /\ crashed' = TRUE
          /\ UNCHANGED <<jobs, fIdx>>
     ELSE /\ HasRoom(jobs, eSize)
          /\ jobs' = [jobs EXCEPT !.buf = Append(@, fIdx)]
          /\ fIdx' = FeederNext(fIdx)
          /\ UNCHANGED crashed
  /\ UNCHANGED <<sink, wg, wPc, wJob, gPc, mRet, once, invoked>>
  /\ EachFrame

\* The range over tracks ends: the deferred once.Do(teardown) is next.
FeederDone ==
  /\ ~crashed
  /\ gPc.feeder = "send"
  /\ fIdx > eLen
  /\ gPc' = [gPc EXCEPT !.feeder = "once"]
  /\ UNCHANGED <<crashed, jobs, sink, wg, wPc, wJob, fIdx, mRet, once, invoked>>
  /\ EachFrame

\* once.Do(teardown), first caller: it runs teardown.
OnceEnter(g) ==
  /\ ~crashed
  /\ gPc[g] = "once"
  /\ once = "new"
  /\ once' = "running"
  /\ gPc' = [gPc EXCEPT ![g] = "close_jobs"]
  /\ UNCHANGED <<crashed, jobs, sink, wg, wPc, wJob, fIdx, mRet, invoked>>
  /\ EachFrame

\* once.Do(teardown), other caller: it returns once the first call has.
OncePass(g) ==
  /\ ~crashed
  /\ gPc[g] = "once"
  /\ once = "done"
  /\ gPc' = [gPc EXCEPT ![g] = After(g)]
  /\ UNCHANGED <<crashed, jobs, sink, wg, wPc, wJob, fIdx, mRet, once, invoked>>
  /\ EachFrame

\* teardown: close(jobs)
TeardownCloseJobs(g) ==
  /\ ~crashed
  /\ gPc[g] = "close_jobs"
  /\ jobs' = [jobs EXCEPT !.closed = TRUE]
  /\ gPc' = [gPc EXCEPT ![g] = "wait"]
  /\ UNCHANGED <<crashed, sink, wg, wPc, wJob, fIdx, mRet, once, invoked>>
  /\ EachFrame

\* teardown: wg.Wait()
TeardownWait(g) ==
  /\ ~crashed
  /\ gPc[g] = "wait"
  /\ wg = 0
  /\ gPc' = [gPc EXCEPT ![g] = "close_sink"]
  /\ UNCHANGED <<crashed, jobs, sink, wg, wPc, wJob, fIdx, mRet, once, invoked>>
  /\ EachFrame

\* teardown: close(sink); teardown and once.Do return.
TeardownCloseSink(g) ==
  /\ ~crashed
  /\ gPc[g] = "close_sink"
  /\ sink' = [sink EXCEPT !.closed = TRUE]
  /\ once' = "done"
  /\ gPc' = [gPc EXCEPT ![g] = After(g)]
  /\ UNCHANGED <<crashed, jobs, wg, wPc, wJob, fIdx, mRet, invoked>>
  /\ EachFrame

\* for t := range jobs: a track is received and do(t) starts.
WorkerRecv(w) ==
  /\ ~crashed
  /\ wPc[w] = "recv"
  /\ jobs.buf # <<>>
  /\ wJob' = [wJob EXCEPT ![w] = Head(jobs.buf)]
  /\ jobs' = [jobs EXCEPT !.buf = Tail(@)]
  /\ invoked' = [invoked EXCEPT ![Head(jobs.buf)] = @ + 1]
  /\ wPc' = [wPc EXCEPT ![w] = "do"]
  /\ UNCHANGED <<crashed, sink, wg, gPc, fIdx, mRet, once>>
  /\ EachFrame

\* for t := range jobs: the channel is closed and drained; wg.Done().
WorkerExit(w) ==
  /\ ~crashed
  /\ wPc[w] = "recv"
  /\ jobs.buf = <<>>
  /\ jobs.closed
  /\ wPc' = [wPc EXCEPT ![w] = "done"]
  /\ wg' = wg - 1
  /\ UNCHANGED <<crashed, jobs, sink, wJob, gPc, fIdx, mRet, once, invoked>>
  /\ EachFrame

\* do(t) returns.
WorkerDo(w) ==
  /\ ~crashed
  /\ wPc[w] = "do"
  /\ wPc' = [wPc EXCEPT ![w] = "send"]
  /\ UNCHANGED <<crashed, jobs, sink, wg, wJob, gPc, fIdx, mRet, once, invoked>>
  /\ EachFrame

\* sink <- do(t)
WorkerSend(w) ==
  /\ ~crashed
  /\ wPc[w] = "send"
  /\ IF sink.closed
     THEN \* send on a closed channel
          /\ crashed' = TRUE
          /\ UNCHANGED <<sink, wPc, wJob>>
     ELSE /\ HasRoom(sink, eSize)
          /\ sink' = [sink EXCEPT !.buf = Append(@, Do(wJob[w]))]
          /\ wPc' = [wPc EXCEPT ![w] = "recv"]
          /\ wJob' = [wJob EXCEPT ![w] = 0]
          /\ UNCHANGED crashed
  /\ UNCHANGED <<jobs, wg, gPc, fIdx, mRet, once, invoked>>
  /\ EachFrame

\* for err := range sink: a result is received; an error ends the loop.
MainRecv ==
  /\ ~crashed
  /\ gPc.main = "range"
  /\ sink.buf # <<>>
  /\ sink' = [sink EXCEPT !.buf = Tail(@)]
  /\ IF Head(sink.buf) # NilErr
     THEN /\ mRet' = Head(sink.buf)
          /\ gPc' = [gPc EXCEPT !.main = "once"]
     ELSE UNCHANGED <<mRet, gPc>>
  /\ UNCHANGED <<crashed, jobs, wg, wPc, wJob, fIdx, once, invoked>>
  /\ EachFrame

\* for err := range sink: the channel is closed and drained; return nil.
MainEnd ==
  /\ ~crashed
  /\ gPc.main = "range"
  /\ sink.buf = <<>>
  /\ sink.closed
  /\ mRet' = NilErr
  /\ gPc' = [gPc EXCEPT !.main = "once"]
  /\ UNCHANGED <<crashed, jobs, sink, wg, wPc, wJob, fIdx, once, invoked>>
  /\ EachFrame

\* each is called: the channels are made, wg.Add(size), the workers and the
\* feeder are started.
InitEach ==
  /\ file = JSONFile(<<>>)
  /\ fs = InitFs
  /\ crashed = FALSE
  /\ TxAtRest
  /\ OpsAtRest
  /\ LegsAtRest
  /\ RefreshAtRest
  /\ ExportAtRest
  /\ CallAtRest
  /\ eSize \in PoolSizes
  /\ eLen \in 0..MaxJobs
  /\ eFail \in SUBSET (1..eLen)
  /\ jobs = [buf |-> <<>>, closed |-> FALSE]
  /\ sink = [buf |-> <<>>, closed |-> FALSE]
  /\ wg = eSize
  /\ wPc = [w \in Worker |-> "recv"]
  /\ wJob = [w \in Worker |-> 0]
  /\ gPc = [main |-> "range", feeder |-> "send"]
  /\ fIdx = 1
  /\ mRet = NilErr
  /\ once = "new"
  /\ invoked = [i \in 1..eLen |-> 0]

NextEach ==
  \/ FeederSend
  \/ FeederDone
  \/ \E g \in {"main", "feeder"} : OnceEnter(g)
  \/ \E g \in {"main", "feeder"} : OncePass(g)
  \/ \E g \in {"main", "feeder"} : TeardownCloseJobs(g)
  \/ \E g \in {"main", "feeder"} : TeardownWait(g)
  \/ \E g \in {"main", "feeder"} : TeardownCloseSink(g)
  \/ \E w \in Worker : WorkerRecv(w)
  \/ \E w \in Worker : WorkerExit(w)
  \/ \E w \in Worker : WorkerDo(w)
  \/ \E w \in Worker : WorkerSend(w)
  \/ MainRecv
  \/ MainEnd

\* One call of each, for every pool size, input and set of failing jobs.
SpecEach == InitEach /\ [][NextEach]_vars

(***************************************************************************)
(* Claims about the batch scheduler, checked under SpecEach.               *)
(***************************************************************************)
EachReturned == gPc.main = "returned"

\* C4: with at least one worker and no failing job, do is called exactly
\* once for every track of the input, in every interleaving, and each then
\* returns nil: no track is processed twice, the batch never gets stuck, and
\* when it has returned every track has been processed.
C4_EveryTrackOnce ==
  (eSize >= 1 /\ eFail = {}) =>
    /\ ~crashed
    /\ \A i \in 1..eLen : invoked[i] <= 1
    /\ EachReturned \/ ENABLED NextEach
    /\ EachReturned => (mRet = NilErr /\ \A i \in 1..eLen : invoked[i] = 1)

\* Two workers have processed three tracks and each has returned nil.
C4_Witness ==
  /\ eSize = 2 /\ eLen = 3 /\ eFail = {}
  /\ EachReturned /\ mRet = NilErr
  /\ \A i \in 1..eLen : invoked[i] = 1

\* C5: with at least one worker and at least one failing job, each ends and
\* returns the first error the workers sent: no goroutine panics, the batch
\* never gets stuck, and what each returns is the error of a failing job.
C5_ReturnsFirstError ==
  (eSize >= 1 /\ eFail # {}) =>
    /\ ~crashed
    /\ EachReturned \/ ENABLED NextEach
    /\ EachReturned => mRet \in eFail

\* C6: when each has returned an error, every worker and the feeder are
\* through: no job is running, none can start, and the feeder has no track
\* left to send.
C6_NothingRunsAfterReturn ==
  (EachReturned /\ mRet # NilErr) =>
    /\ \A w \in Worker : wPc[w] = "done"
    /\ gPc.feeder = "send" => fIdx > eLen
    /\ ~crashed

(***************************************************************************)
(* The legs of track (hash and BPM analysis) and of convert (audio,        *)
(* waveform, spectrogram), one goroutine step at a time.                   *)
(***************************************************************************)
\* wg.Add(2) in track, wg.Add(3) in convert.
NumLegs(kind) == IF kind = "track" THEN 2 ELSE 3
Leg == 1..NumLegs(lKind)

\* A leg of track sends its value on hc or bc before its error; a leg of
\* convert sends the error of build only.
SendsErrOnly(kind) == "senderr"
FirstSend(kind) == IF kind = "track" THEN "sendval" ELSE "senderr"

\* make(chan error, 2) in track, make(chan error, 3) in convert.
Unbuffered(kind) == 0
SinkCap(kind) == NumLegs(kind)

\* wg.Wait() returns when the counter is zero.
WgWaitEarly(n) == TRUE
WgWaitReturns(n) == n = 0

LegFrame == UNCHANGED <<file, fs, lKind, txVars, opVars, eachVars, refVars, expVars, call>>

\* hash, analyze or build runs and returns a value and an error, whatever
\* its siblings do.
LegRun(l, failed) ==
  /\ ~crashed
  /\ legPc[l] = "run"
  /\ legOut' = [legOut EXCEPT ![l] = [err |-> failed, val |-> IF failed THEN 0 ELSE l]]
  /\ legPc' = [legPc EXCEPT ![l] = FirstSend(lKind)]
  /\ UNCHANGED <<crashed, valCh, errCh, lWg, lPc, lRet>>
  /\ LegFrame

\* hc <- hash, bc <- bpm: channels of capacity 1
LegSendVal(l) ==
  /\ ~crashed
  /\ legPc[l] = "sendval"
  /\ IF valCh[l].closed
     THEN \* send on a closed channel
          /\ crashed' = TRUE
          /\ UNCHANGED <<valCh, legPc>>
     ELSE /\ Len(valCh[l].buf) < 1
          /\ valCh' = [valCh EXCEPT ![l].buf = Append(@, legOut[l].val)]
          /\ legPc' = [legPc EXCEPT ![l] = "senderr"]
          /\ UNCHANGED crashed
  /\ UNCHANGED <<legOut, errCh, lWg, lPc, lRet>>
  /\ LegFrame

\* sink <- err: a channel with room for the error of every leg
LegSendErr(l) ==
  /\ ~crashed
  /\ legPc[l] = "senderr"
  /\ IF errCh.closed
     THEN \* send on a closed channel
          /\ crashed' = TRUE
          /\ UNCHANGED <<errCh, legPc>>
     ELSE /\ Len(errCh.buf) < SinkCap(lKind)
          /\ errCh' = [errCh EXCEPT !.buf = Append(@, legOut[l].err)]
          /\ legPc' = [legPc EXCEPT ![l] = "wgdone"]
          /\ UNCHANGED crashed
  /\ UNCHANGED <<legOut, valCh, lWg, lPc, lRet>>
  /\ LegFrame

\* the deferred wg.Done()
LegDone(l) ==
  /\ ~crashed
  /\ legPc[l] = "wgdone"
  /\ lWg' = lWg - 1
  /\ legPc' = [legPc EXCEPT ![l] = "done"]
  /\ UNCHANGED <<crashed, legOut, valCh, errCh, lPc, lRet>>
  /\ LegFrame

\* wg.Wait(), then close(hc), close(bc), close(sink)
WaitAndClose ==
  /\ ~crashed
  /\ lPc = "wait"
  /\ WgWaitReturns(lWg)
  /\ valCh' = [l \in DOMAIN valCh |-> [valCh[l] EXCEPT !.closed = TRUE]]
  /\ errCh' = [errCh EXCEPT !.closed = TRUE]
  /\ lPc' = "range"
  /\ UNCHANGED <<crashed, legPc, legOut, lWg, lRet>>
  /\ LegFrame

\* for err := range sink: the first error is returned.
RangeRecv ==
  /\ ~crashed
  /\ lPc = "range"
  /\ errCh.buf # <<>>
  /\ errCh' = [errCh EXCEPT !.buf = Tail(@)]
  /\ IF Head(errCh.buf)
     THEN /\ lRet' = [err |-> TRUE, vals |-> <<>>]
          /\ lPc' = "returned"
     ELSE UNCHANGED <<lRet, lPc>>
  /\ UNCHANGED <<crashed, legPc, legOut, valCh, lWg>>
  /\ LegFrame

\* The range ends without an error: track receives the hash and the BPM
\* from hc and bc (the zero value from a closed, empty channel).
RangeEnd ==
  /\ ~crashed
  /\ lPc = "range"
  /\ errCh.buf = <<>>
  /\ errCh.closed
  /\ lRet' = [err |-> FALSE,
              vals |-> [l \in DOMAIN valCh |->
                          IF valCh[l].buf = <<>> THEN 0 ELSE Head(valCh[l].buf)]]
  /\ valCh' = [l \in DOMAIN valCh |->
                 [valCh[l] EXCEPT !.buf = IF @ = <<>> THEN @ ELSE Tail(@)]]
  /\ lPc' = "returned"
  /\ UNCHANGED <<crashed, legPc, legOut, errCh, lWg>>
  /\ LegFrame

\* track or convert is called: the channels are made, wg.Add, the legs are
\* started.
InitTrack ==
  /\ file = JSONFile(<<>>)
  /\ fs = InitFs
  /\ crashed = FALSE
  /\ TxAtRest
  /\ OpsAtRest
  /\ EachAtRest
  /\ RefreshAtRest
  /\ ExportAtRest
  /\ CallAtRest
  /\ lKind \in {"track", "convert"}
  /\ legPc = [l \in Leg |-> "run"]
  /\ legOut = [l \in Leg |-> [err |-> FALSE, val |-> 0]]
  /\ valCh = IF lKind = "track"
             THEN [l \in Leg |-> [buf |-> <<>>, closed |-> FALSE]]
             ELSE <<>>
  /\ errCh = [buf |-> <<>>, closed |-> FALSE]
  /\ lWg = NumLegs(lKind)
  /\ lPc = "wait"
  /\ lRet = [err |-> FALSE, vals |-> <<>>]

LegStep(l) ==
  \/ \E failed \in BOOLEAN : LegRun(l, failed)
  \/ LegSendVal(l)
  \/ LegSendErr(l)
  \/ LegDone(l)

NextTrack ==
  \/ \E l \in Leg : LegStep(l)
  \/ WaitAndClose
  \/ RangeRecv
  \/ RangeEnd

\* One call of track or of convert, for every outcome of every leg.
SpecTrack == InitTrack /\ [][NextTrack]_vars

(***************************************************************************)
(* Claims about the legs, checked under SpecTrack.                         *)
(***************************************************************************)
\* C10: in track and in convert every leg runs to completion whether or not
\* a sibling has failed: a leg that has not finished can always take its
\* next step, no send hits a closed channel, and track or convert goes past
\* wg.Wait - hence returns its error - only when every leg has finished;
\* the error it returns is that some leg failed.
C10_AllLegsComplete ==
  /\ ~crashed
  /\ \A l \in Leg : legPc[l] # "done" => ENABLED LegStep(l)
  /\ lPc # "wait" => \A l \in Leg : legPc[l] = "done"
  /\ lPc = "returned" => (lRet.err <=> \E l \in Leg : legOut[l].err)

\* convert has returned an error: its first leg failed, the two others ran
\* to completion and succeeded.
C10_Witness ==
  /\ lKind = "convert"
  /\ lPc = "returned" /\ lRet.err
  /\ legOut[1].err /\ ~legOut[2].err /\ ~legOut[3].err
  /\ \A l \in Leg : legPc[l] = "done" /\ legOut[l].val = (IF l = 1 THEN 0 ELSE l)

(***************************************************************************)
(* The transformation of Refresh, one goroutine step at a time: the batch  *)
(* scheduler above with the do of Refresh, the collector goroutine and     *)
(* what Refresh does once each has returned.                               *)
(***************************************************************************)
\* The audio files of a playlist whose directories hold files of the same
\* name.
MorePaths == Paths \cup {"/n/b.flac"}
RefreshFs == [p \in MorePaths |-> IF p = "/n/a.flac" THEN "c2" ELSE "c1"]

\* A track as an earlier Analyze left it, the file having changed since.
OldTrack(p) ==
  [Path |-> p, Hash |-> "h2",
   Preset |-> IF p = "/n/a.flac" THEN Presets[2] ELSE Presets[1],
   BPM |-> 17400]

\* Sequences of at most n tracks at pairwise distinct paths.
RECURSIVE DistinctSeqs(_)
DistinctSeqs(n) ==
  IF n = 0 THEN {<<>>}
  ELSE LET shorter == DistinctSeqs(n - 1) IN
       shorter \cup
       {Append(s, OldTrack(p)) : s \in {x \in shorter : Len(x) = n - 1}, p \in MorePaths}

\* The collections a Refresh may decode: canonically ordered, as Analyze
\* persists them, tracks of equal preset and basename in either order.
RefreshInputs ==
  {s \in DistinctSeqs(MaxJobs) :
     /\ \A i, j \in 1..Len(s) : i # j => s[i].Path # s[j].Path
     /\ \A i, j \in 1..Len(s) : i < j => ~Less(s[j], s[i])}

\* The stub scanner or a failing pipeline, per path.
RefreshOutcomes == [MorePaths -> {[err |-> FALSE, bpm |-> 10000], PipeErr}]

\* What do computes for job i.
JobResult(i) == RefreshJob(fs, rOld[i], rExt)

\* wg.Wait() of Refresh returns when the collector has called wg.Done().
CollectorWaitEarly(c) == TRUE
CollectorDone(c) == c = "done"

RefreshFrame ==
  UNCHANGED <<file, fs, rOld, rExt, eSize, eLen, eFail, txVars, opVars, legVars, expVars, call>>

\* do(t): track(...) and, when it succeeded, out <- t.
RefreshDo(w) ==
  /\ ~crashed
  /\ wPc[w] = "do"
  /\ IF JobResult(wJob[w]).err
     THEN /\ wPc' = [wPc EXCEPT ![w] = "send"]
          /\ UNCHANGED <<out, crashed>>
     ELSE IF out.closed
     THEN \* send on a closed channel
          /\ crashed' = TRUE
          /\ UNCHANGED <<out, wPc>>
     ELSE /\ HasRoom(out, eSize)
          /\ out' = [out EXCEPT !.buf = Append(@, JobResult(wJob[w]).track)]
          /\ wPc' = [wPc EXCEPT ![w] = "send"]
          /\ UNCHANGED crashed
  /\ UNCHANGED <<jobs, sink, wg, wJob, gPc, fIdx, mRet, once, invoked>>
  /\ UNCHANGED <<rTracks, cPc, cItem, rPc, rRet>>
  /\ RefreshFrame

\* The collector: for t := range out
CollectorRecv ==
  /\ ~crashed
  /\ cPc = "range"
  /\ out.buf # <<>>
  /\ cItem' = Head(out.buf)
  /\ out' = [out EXCEPT !.buf = Tail(@)]
  /\ cPc' = "append"
  /\ UNCHANGED <<crashed, rTracks, rPc, rRet, eachVars>>
  /\ RefreshFrame

\* tracks = append(tracks, t)
CollectorAppend ==
  /\ ~crashed
  /\ cPc = "append"
  /\ rTracks' = Append(rTracks, cItem)
  /\ cItem' = ZeroTrack
  /\ cPc' = "range"
  /\ UNCHANGED <<crashed, out, rPc, rRet, eachVars>>
  /\ RefreshFrame

\* out is closed and drained: the deferred wg.Done()
CollectorExit ==
  /\ ~crashed
  /\ cPc = "range"
  /\ out.buf = <<>>
  /\ out.closed
  /\ cPc' = "done"
  /\ UNCHANGED <<crashed, out, rTracks, cItem, rPc, rRet, eachVars>>
  /\ RefreshFrame

\* each has returned: close(out), on either branch.
RefreshCloseOut ==
  /\ ~crashed
  /\ rPc = "each"
  /\ gPc.main = "returned"
  /\ out' = [out EXCEPT !.closed = TRUE]
  /\ rPc' = "wait"
  /\ UNCHANGED <<crashed, rTracks, cPc, cItem, rRet, eachVars>>
  /\ RefreshFrame

\* wg.Wait(); after an error of each, return nil, err.
RefreshWait ==
  /\ ~crashed
  /\ rPc = "wait"
  /\ CollectorDone(cPc)
  /\ IF mRet # NilErr
     THEN /\ rRet' = Failed
          /\ rPc' = "returned"
     ELSE /\ rPc' = "order"
          /\ UNCHANGED rRet
  /\ UNCHANGED <<crashed, out, rTracks, cPc, cItem, eachVars>>
  /\ RefreshFrame

\* order(tracks); return tracks, nil
RefreshReturn ==
  /\ ~crashed
  /\ rPc = "order"
  /\ rRet' = Ok(order(rTracks))
  /\ rPc' = "returned"
  /\ UNCHANGED <<crashed, out, rTracks, cPc, cItem, eachVars>>
  /\ RefreshFrame

\* Refresh has made out, started the collector and called each(n, old, do).
InitRefresh ==
  /\ file = JSONFile(<<>>)
  /\ fs = RefreshFs
  /\ crashed = FALSE
  /\ TxAtRest
  /\ OpsAtRest
  /\ LegsAtRest
  /\ ExportAtRest
  /\ CallAtRest
  /\ rOld \in RefreshInputs
  /\ rExt \in RefreshOutcomes
  /\ out = [buf |-> <<>>, closed |-> FALSE]
  /\ rTracks = <<>>
  /\ cPc = "range"
  /\ cItem = ZeroTrack
  /\ rPc = "each"
  /\ rRet = Ok(<<>>)
  /\ eSize \in PoolSizes
  /\ eLen = Len(rOld)
  /\ eFail = {i \in 1..Len(rOld) : RefreshJob(fs, rOld[i], rExt).err}
  /\ jobs = [buf |-> <<>>, closed |-> FALSE]
  /\ sink = [buf |-> <<>>, closed |-> FALSE]
  /\ wg = eSize
  /\ wPc = [w \in Worker |-> "recv"]
  /\ wJob = [w \in Worker |-> 0]
  /\ gPc = [main |-> "range", feeder |-> "send"]
  /\ fIdx = 1
  /\ mRet = NilErr
  /\ once = "new"
  /\ invoked = [i \in 1..eLen |-> 0]

NextRefresh ==
  \/ FeederSend
  \/ FeederDone
  \/ \E g \in {"main", "feeder"} : OnceEnter(g)
  \/ \E g \in {"main", "feeder"} : OncePass(g)
  \/ \E g \in {"main", "feeder"} : TeardownCloseJobs(g)
  \/ \E g \in {"main", "feeder"} : TeardownWait(g)
  \/ \E g \in {"main", "feeder"} : TeardownCloseSink(g)
  \/ \E w \in Worker : WorkerRecv(w)
  \/ \E w \in Worker : WorkerExit(w)
  \/ \E w \in Worker : RefreshDo(w)
  \/ \E w \in Worker : WorkerSend(w)
  \/ MainRecv
  \/ MainEnd
  \/ CollectorRecv
  \/ CollectorAppend
  \/ CollectorExit
  \/ RefreshCloseOut
  \/ RefreshWait
  \/ RefreshReturn

\* One transformation of Refresh, for every pool size, input and outcome.
SpecRefresh == InitRefresh /\ [][NextRefresh]_vars

(***************************************************************************)
(* Claims about Refresh, checked under SpecRefresh.                        *)
(***************************************************************************)
\* The jobs complete in the order of the input.
InOrder(n) == [i \in 1..n |-> i]

\* C11: whatever the pool size (1, 2 or more) and the order in which the
\* jobs complete, a Refresh whose jobs all succeed returns the collection a
\* single worker returns: the same tracks in the same order.
C11_RefreshSameOrder ==
  (rPc = "returned" /\ ~rRet.err /\ eSize >= 1) =>
    rRet.tracks = RefreshF(rOld, fs, rExt, InOrder(Len(rOld))).tracks

(***************************************************************************)
(* The export of Compile: the convert of every track and, in each, the     *)
(* three builds, one step at a time. The directory is the fresh one of     *)
(* os.MkdirTemp, so it holds what these builds have created only.          *)
(***************************************************************************)
\* The artifacts of a track: audio, waveform, spectrogram.
Artifacts == {"audio", "waveforms", "spectrograms"}

\* The basename of a path without its extension.
Stem(p) == CASE p = "/m/b.flac" -> "b"
             [] p = "/n/a.flac" -> "a"
             [] p = "/n/b.flac" -> "b"

\* math.Round of a BPM, in whole BPM.
RoundBPM(bpm) == (bpm + 50) \div 100

\* rename: <preset>/<rounded bpm> - <name>
renameFlat(t) == <<"default", RoundBPM(t.BPM), Stem(t.Path)>>
rename(t) == <<t.Preset.Name, RoundBPM(t.BPM), Stem(t.Path)>>

\* The suffix convert gives to the artifacts of directory a: wav or png.
Suffix(a) == IF a = "audio" THEN ".wav" ELSE ".png"

\* dst(dir, suffix) for artifact a of track t.
Dst(a, t) == <<a, rename(t), Suffix(a)>>

\* The tracks of the collections Compile exports.
ExportBPMs == {10000, 10049}
ExportTracks ==
  {[Path |-> p, Hash |-> Sha256(RefreshFs[p]),
    Preset |-> IF p = "/n/a.flac" THEN Presets[2] ELSE Presets[1], BPM |-> b] :
     p \in MorePaths, b \in ExportBPMs}

RECURSIVE ExportSeqs(_)
ExportSeqs(n) ==
  IF n = 0 THEN {<<>>}
  ELSE LET shorter == ExportSeqs(n - 1) IN
       shorter \cup
       {Append(s, t) : s \in {x \in shorter : Len(x) = n - 1}, t \in ExportTracks}

ExportInputs ==
  {s \in ExportSeqs(MaxTracks) : \A i, j \in 1..Len(s) : i # j => s[i].Path # s[j].Path}

XJobs == 1..Len(xTracks)

ExportFrame ==
  UNCHANGED <<file, fs, crashed, xTracks, xSize, txVars, opVars, eachVars, legVars, refVars, call>>

\* A worker receives track j, the tracks before it having been received:
\* convert starts its three builds.
XStart(j) ==
  /\ xJob[j] = "queued"
  /\ \A i \in XJobs : i < j => xJob[i] # "queued"
  /\ Cardinality({i \in XJobs : xJob[i] = "running"}) < xSize
  /\ xJob' = [xJob EXCEPT ![j] = "running"]
  /\ xPc' = [xPc EXCEPT ![j] = [a \in Artifacts |-> "stat"]]
  /\ UNCHANGED <<xErr, xFiles>>
  /\ ExportFrame

\* build: os.Stat(dst); an existing destination is an error.
XStat(j, a) ==
  /\ xPc[j][a] = "stat"
  /\ IF Dst(a, xTracks[j]) \in xFiles
     THEN /\ xErr' = [xErr EXCEPT ![j][a] = "overwrite"]
          /\ xPc' = [xPc EXCEPT ![j][a] = "done"]
     ELSE /\ xPc' = [xPc EXCEPT ![j][a] = "create"]
          /\ UNCHANGED xErr
  /\ UNCHANGED <<xJob, xFiles>>
  /\ ExportFrame

\* build: os.Create(dst) creates the file, or truncates it.
XCreate(j, a) ==
  /\ xPc[j][a] = "create"
  /\ xFiles' = xFiles \cup {Dst(a, xTracks[j])}
  /\ xPc' = [xPc EXCEPT ![j][a] = "run"]
  /\ UNCHANGED <<xJob, xErr>>
  /\ ExportFrame

\* build: run(ctx, p, in, out) writes the destination; the pipeline may fail.
XRun(j, a, failed) ==
  /\ xPc[j][a] = "run"
  /\ xErr' = [xErr EXCEPT ![j][a] = IF failed THEN "pipeline" ELSE "none"]
  /\ xPc' = [xPc EXCEPT ![j][a] = "done"]
  /\ UNCHANGED <<xJob, xFiles>>
  /\ ExportFrame

\* convert: wg.Wait(), then the first error of the sink, or nil.
XReturn(j) ==
  /\ xJob[j] = "running"
  /\ \A a \in Artifacts : xPc[j][a] = "done"
  /\ xJob' = [xJob EXCEPT ![j] =
                IF \E a \in Artifacts : xErr[j][a] # "none" THEN "failed" ELSE "ok"]
  /\ UNCHANGED <<xPc, xErr, xFiles>>
  /\ ExportFrame

InitExport ==
  /\ file = JSONFile(<<>>)
  /\ fs = RefreshFs
  /\ crashed = FALSE
  /\ TxAtRest
  /\ OpsAtRest
  /\ EachAtRest
  /\ LegsAtRest
  /\ RefreshAtRest
  /\ CallAtRest
  /\ xTracks \in ExportInputs
  /\ xSize \in PoolSizes
  /\ xJob = [j \in XJobs |-> "queued"]
  /\ xPc = [j \in XJobs |-> [a \in Artifacts |-> "idle"]]
  /\ xErr = [j \in XJobs |-> [a \in Artifacts |-> "none"]]
  /\ xFiles = {}

NextExport ==
  \/ \E j \in XJobs : XStart(j)
  \/ \E j \in XJobs, a \in Artifacts : XStat(j, a)
  \/ \E j \in XJobs, a \in Artifacts : XCreate(j, a)
  \/ \E j \in XJobs, a \in Artifacts, failed \in BOOLEAN : XRun(j, a, failed)
  \/ \E j \in XJobs : XReturn(j)

\* One export, for every pool size and every collection.
SpecExport == InitExport /\ [][NextExport]_vars

(***************************************************************************)
(* Claims about the export, checked under SpecExport.                      *)
(***************************************************************************)
\* Build a of track j has created (or truncated) and written its destination.
Created(j, a) ==
  \/ xPc[j][a] = "run"
  \/ xPc[j][a] = "done" /\ xErr[j][a] # "overwrite"

\* C12: export never overwrites a destination. Two tracks of a batch that
\* map to the same destination never both create it, and once both converts
\* have returned at least one of them has returned an error.
C12_NeverOverwrites ==
  \A i, j \in XJobs : \A a \in Artifacts :
    (i # j /\ Dst(a, xTracks[i]) = Dst(a, xTracks[j])) =>
       /\ ~(Created(i, a) /\ Created(j, a))
       /\ (xJob[i] \in {"ok", "failed"} /\ xJob[j] \in {"ok", "failed"})
            => (xJob[i] = "failed" \/ xJob[j] = "failed")

\* C13: a track one of whose artifacts would overwrite an existing file is
\* exported with an error and without any file written for it: none of its
\* builds creates a destination.
C13_OverwriteWritesNothing ==
  \A j \in XJobs :
    (\E a \in Artifacts : xErr[j][a] = "overwrite") =>
       \A b \in Artifacts : xPc[j][b] = "done" => ~Created(j, b)

(***************************************************************************)
(* Transactions on a store that exists already: written by an earlier      *)
(* version of the program, which ordered by BPM, or by hand.               *)
(***************************************************************************)
\* The tracks of such a store.
StoredTracks ==
  {[Path |-> p, Hash |-> Sha256(InitFs[p]), Preset |-> q, BPM |-> 10000] :
     p \in Paths, q \in ArgPresets}

RECURSIVE StoredSeqs(_)
StoredSeqs(n) ==
  IF n = 0 THEN {<<>>}
  ELSE LET shorter == StoredSeqs(n - 1) IN
       shorter \cup
       {Append(s, t) : s \in {x \in shorter : Len(x) = n - 1}, t \in StoredTracks}

\* Valid stores, their tracks at pairwise distinct paths in any order.
StoredFiles ==
  {Encode(s) : s \in {x \in StoredSeqs(MaxTracks) :
                        \A i, j \in 1..Len(x) : i # j => x[i].Path # x[j].Path}}

\* The audio files by then: all in place, or one of them gone.
StoredFs == {InitFs} \cup {[InitFs EXCEPT ![p] = NoFile] : p \in Paths}

\* No transaction has started; the history of commits starts at the store.
InitStored ==
  /\ file \in StoredFiles
  /\ fs \in StoredFs
  /\ crashed = FALSE
  /\ holders = {}
  /\ txPc = [t \in Tx |-> "idle"]
  /\ txOp = [t \in Tx |-> NoOp]
  /\ txData = [t \in Tx |-> <<>>]
  /\ txOut = [t \in Tx |-> <<>>]
  /\ txRet = [t \in Tx |-> "none"]
  /\ txEnv = [t \in Tx |-> NoEnv]
  /\ txSnap = [t \in Tx |-> MissingFile]
  /\ serial = Decode(file).tracks
  /\ OpsAtRest
  /\ EachAtRest
  /\ LegsAtRest
  /\ RefreshAtRest
  /\ ExportAtRest
  /\ CallAtRest

SpecStored == InitStored /\ [][NextTx]_vars

(***************************************************************************)
(* Claims about transactions on an existing store, checked under           *)
(* SpecStored.                                                             *)
(***************************************************************************)
\* The canonical order: by preset name, then by basename.
Sorted(tracks) == \A i, j \in 1..Len(tracks) : i < j => ~Less(tracks[j], tracks[i])

\* C14: whatever operation writes the resource and whatever the order of
\* the collection it decoded, the collection a transaction is about to
\* write is in canonical order.
C14_SortedBeforePersist ==
  \A t \in Tx : txPc[t] = "truncated" => Sorted(txOut[t])

(***************************************************************************)
(* More claims about Refresh, checked under SpecRefresh.                   *)
(***************************************************************************)
\* Number of tracks of a collection at path p.
CountPath(tracks, p) == Cardinality({k \in 1..Len(tracks) : tracks[k].Path = p})

KeptFrom(old, new, fsys) ==
  \E f \in [1..Len(new) -> 1..Len(old)] :
    /\ \A k, l \in 1..Len(new) : k < l => f[k] < f[l]
    /\ \A k \in 1..Len(new) : new[k] = old[f[k]]
    /\ \A i \in 1..Len(old) :
         (fsys[old[i].Path] # NoFile) <=> (\E k \in 1..Len(new) : f[k] = i)

\* C16: the collection a Prune returns, and then writes, is the collection
\* it decoded without the tracks whose path did not exist when it ran: every
\* track whose file exists is kept, with all its fields and in the same
\* relative order, and no other track is.
C16_PruneRemovesMissing ==
  \A t \in Tx :
    (txOp[t].kind = "prune" /\ (txPc[t] \in {"transformed", "truncated"} \/ txRet[t] = "ok")) =>
       /\ KeptFrom(txData[t], txOut[t], txEnv[t].fsys)
       /\ txRet[t] = "ok" => file = Encode(txOut[t])

\* A Prune has written a store of two tracks without the one whose file is
\* gone.
C16_Witness ==
  \E t \in Tx :
    /\ txOp[t].kind = "prune" /\ txRet[t] = "ok"
    /\ Len(txData[t]) = 2 /\ Len(txOut[t]) = 1
    /\ txOut[t][1] = txData[t][2]
    /\ file = Encode(txOut[t])

(***************************************************************************)
(* Claims about how the collection grows and shrinks, checked under        *)
(* SpecStored.                                                             *)
(***************************************************************************)
Without(tracks, i) ==
  [j \in 1..(Len(tracks) - 1) |-> IF j < i THEN tracks[j] ELSE tracks[j + 1]]

CountTrack(tracks, x) == Cardinality({k \in 1..Len(tracks) : tracks[k] = x})

\* The same entries, whatever their order.
SameEntries(a, b) ==
  /\ Len(a) = Len(b)
  /\ \A k \in 1..Len(a) : CountTrack(a, a[k]) = CountTrack(b, a[k])

\* new is old with one entry of the analyzed track's hash replaced by that
\* track, or, when old has no entry of that hash, with the track added.
ReplacedOrAppended(old, new, op) ==
  \E k \in 1..Len(new) :
    /\ new[k].Path = op.path
    /\ new[k].Preset = op.preset
    /\ \/ /\ \A i \in 1..Len(old) : old[i].Hash # new[k].Hash
          /\ SameEntries(Without(new, k), old)
       \/ \E i \in 1..Len(old) :
            /\ old[i].Hash = new[k].Hash
            /\ SameEntries(Without(new, k), Without(old, i))

\* C17: a transaction that returns a collection returns the one it decoded
\* with, for an Analyze, one entry replaced (the one of the same hash) or one
\* entry added and every other entry as it was, so never a smaller one and
\* at most one entry larger; for a Prune, without entries whose recorded
\* path does not exist only; and for any other operation, with as many
\* entries at the same paths.
C17_LeavesOnlyByPrune ==
  \A t \in Tx :
    (txPc[t] \in {"transformed", "truncated"} \/ txRet[t] = "ok") =>
      LET old == txData[t]
          new == txOut[t] IN
      CASE txOp[t].kind = "analyze" ->
             /\ ReplacedOrAppended(old, new, txOp[t])
             /\ Len(new) \in {Len(old), Len(old) + 1}
        [] txOp[t].kind = "prune" ->
             \A i \in 1..Len(old) :
               CountTrack(new, old[i]) < CountTrack(old, old[i])
                 => txEnv[t].fsys[old[i].Path] = NoFile
        [] OTHER ->
             /\ Len(new) = Len(old)
             /\ \A i \in 1..Len(old) : CountPath(new, old[i].Path) = CountPath(old, old[i].Path)

\* An Analyze has written a store of two tracks with one of them replaced:
\* same size, the other entry as it was.
C17_Witness ==
  \E t \in Tx :
    /\ txOp[t].kind = "analyze" /\ txRet[t] = "ok"
    /\ Len(txData[t]) = 2 /\ Len(txOut[t]) = 2
    /\ txOut[t] # txData[t]
    /\ \E k \in 1..2 : txOut[t][k].Path = txOp[t].path /\ CountTrack(txData[t], txOut[t][k]) = 0

(***************************************************************************)
(* Claims about the propagation of errors, checked under SpecStored.       *)
(***************************************************************************)
\* A leg of the track processor, or a job of the batch, of transaction t
\* returned an error.
LegOrJobFailed(t) ==
  /\ txEnv[t] # NoEnv
  /\ CASE txOp[t].kind = "analyze" ->
             \/ hash(txEnv[t].fsys, txOp[t].path).err
             \/ analyze(txEnv[t].fsys, txOp[t].path, txEnv[t].ext).err
        [] txOp[t].kind \in {"refresh", "compile"} ->
             \E i \in 1..Len(txData[t]) : JobErrs(txOp[t], txData[t], txEnv[t])[i]
        [] OTHER -> FALSE

\* C18: when a leg of the track processor or a job of a batch returned an
\* error, the transaction of the enclosing Analyze, Refresh or Compile has
\* no replacement to write, does not return success, and leaves the
\* resource as it was when it took the lock.
C18_ErrorsPropagate ==
  \A t \in Tx :
    LegOrJobFailed(t) =>
      /\ txPc[t] \notin {"transformed", "truncated"}
      /\ txRet[t] # "ok"
      /\ txPc[t] = "unlock" => (txRet[t] = "f_error" /\ file = txSnap[t])

\* A Refresh of two tracks whose second job alone failed is about to return
\* the error, the store untouched.
C18_Witness ==
  \E t \in Tx :
    /\ txOp[t].kind = "refresh" /\ txPc[t] = "unlock" /\ txRet[t] = "f_error"
    /\ Len(txData[t]) = 2
    /\ ~JobErrs(txOp[t], txData[t], txEnv[t])[1]
    /\ JobErrs(txOp[t], txData[t], txEnv[t])[2]
    /\ file = Encode(txData[t])

(***************************************************************************)
(* Claims about the slice Refresh collects into, checked under             *)
(* SpecRefresh. The workers hand their results to the out channel; the     *)
(* collector goroutine alone appends, and Refresh itself reads the slice   *)
(* once wg.Wait() has returned.                                            *)
(***************************************************************************)
\* C19: the collector is never appending to the slice while Refresh reads
\* it, and once the collector is done after a batch without error the slice
\* holds the result of every job exactly once.
C19_CollectionConfined ==
  /\ ~(cPc = "append" /\ rPc \in {"order", "returned"})
  /\ (rPc \in {"order", "returned"} /\ mRet = NilErr) =>
       /\ cPc = "done"
       /\ Len(rTracks) = Len(rOld)
       /\ \A i \in 1..Len(rOld) : CountTrack(rTracks, JobResult(i).track) = 1

\* Refresh is about to read the three results two workers produced, the
\* second track's result collected first.
C19_Witness ==
  /\ rPc = "order" /\ cPc = "done"
  /\ eSize = 2 /\ Len(rOld) = 3 /\ Len(rTracks) = 3
  /\ rTracks[1] = JobResult(2).track

(***************************************************************************)
(* Claims about the timeout of an external pipeline, checked under         *)
(* SpecRefresh. run derives a context of one minute for its own            *)
(* invocation; when it expires p.Run returns the error of the context,     *)
(* which the analysis leg and then the job return.                         *)
(***************************************************************************)
\* The job of track i has run and its pipeline did not end in time.
TimedOut(i) ==
  /\ rExt[rOld[i].Path] = PipeErr
  /\ invoked[i] > 0
  /\ \A w \in Worker : ~(wPc[w] = "do" /\ wJob[w] = i)

\* C20: once the pipeline of one job has timed out, the batch fails with an
\* error: no goroutine panics, and what Refresh returns is an error.
C20_TimeoutFailsBatch ==
  \A i \in 1..Len(rOld) :
    (eSize >= 1 /\ TimedOut(i)) =>
      /\ ~crashed
      /\ rPc = "returned" => rRet.err

(***************************************************************************)
(* Claims about what track returns, checked under SpecTrack. The path and  *)
(* the preset of the Track literal are the arguments of track; its hash    *)
(* and its BPM are what track receives from hc and bc.                     *)
(***************************************************************************)
\* C21: when no leg failed, track returns without error the value of the
\* hashing leg and the value of the analysis leg; when a leg failed it
\* returns an error and no value, whatever the other leg produced.
C21_TrackComposes ==
  (lKind = "track" /\ lPc = "returned") =>
    IF \E l \in Leg : legOut[l].err
    THEN lRet = [err |-> TRUE, vals |-> <<>>]
    ELSE lRet = [err |-> FALSE, vals |-> [l \in Leg |-> legOut[l].val]]

\* track has returned an error although the hashing leg produced and sent
\* its value: the analysis leg failed.
C21_Witness ==
  /\ lKind = "track" /\ lPc = "returned"
  /\ ~legOut[1].err /\ legOut[1].val = 1 /\ valCh[1].buf = <<1>>
  /\ legOut[2].err
  /\ lRet.err

(***************************************************************************)
(* Claims about the files of a successful export, checked under            *)
(* SpecExport. os.MkdirTemp gives Compile a root that holds no file.       *)
(***************************************************************************)
\* C22: when the convert of every one of k tracks has returned without
\* error and no two tracks have the same preset, rounded BPM and basename
\* without extension, the export root holds exactly 3k files: for each
\* track a .wav under audio, a .png under waveforms and a .png under
\* spectrograms, each in the subdirectory of the track's preset and named
\* by its rounded BPM and its basename without extension.
C22_ThreeFilesPerTrack ==
  LET name(t) == <<t.Preset.Name, (t.BPM + 50) \div 100, Stem(t.Path)>> IN
  (/\ \A j \in XJobs : xJob[j] = "ok"
   /\ \A i, j \in XJobs : i # j => name(xTracks[i]) # name(xTracks[j])) =>
     /\ Cardinality(xFiles) = 3 * Len(xTracks)
     /\ xFiles = UNION {{<<"audio", name(xTracks[j]), ".wav">>,
                          <<"waveforms", name(xTracks[j]), ".png">>,
                          <<"spectrograms", name(xTracks[j]), ".png">>} : j \in XJobs}

\* Two workers have exported two tracks of different presets: six files.
C22_Witness ==
  /\ xSize = 2 /\ Len(xTracks) = 2
  /\ \A j \in XJobs : xJob[j] = "ok"
  /\ xTracks[1].Preset.Name = "default" /\ xTracks[2].Preset.Name = "dnb"
  /\ Cardinality(xFiles) = 6

(***************************************************************************)
(* Refresh under a scheduler that lets a goroutine run when one can: the   *)
(* Go runtime does not leave every runnable goroutine waiting for ever.    *)
(***************************************************************************)
SpecRefreshFair == SpecRefresh /\ WF_vars(NextRefresh)

\* C23: on an empty collection and for any pool size, no worker ever runs a
\* job, no goroutine panics, and the batch and Refresh end: each returns
\* nil and Refresh returns an empty collection without error.
C23_EmptyBatchCompletes ==
  /\ [](Len(rOld) = 0 =>
         /\ ~crashed
         /\ mRet = NilErr
         /\ \A w \in Worker : wPc[w] \in {"recv", "done"}
         /\ rPc = "returned" => rRet = Ok(<<>>))
  /\ (Len(rOld) = 0) ~> (gPc.main = "returned" /\ rPc = "returned" /\ rTracks = <<>>)

\* Refresh of an empty collection has returned, its two workers gone
\* without a job.
C23_Witness ==
  /\ Len(rOld) = 0 /\ eSize = 2
  /\ rPc = "returned" /\ rRet = Ok(<<>>)
  /\ \A w \in Worker : wPc[w] = "done"
  /\ sink.closed /\ out.closed

(***************************************************************************)
(* PresetFromBPM and PresetFromName, called on their own: by the command   *)
(* line, which hands PresetFromBPM whatever strconv.ParseFloat accepts,    *)
(* and by the decoder of the store.                                        *)
(***************************************************************************)
\* BPM arguments, in thousandths: around every bound of every preset, the
\* values of the tests (20 and 174), and NaN.
MilliBPMs ==
  {10 * e + d : e \in {Presets[i].Min : i \in 1..Len(Presets)}
                      \cup {Presets[i].Max : i \in 1..Len(Presets)},
                d \in -6..6}
  \cup {20000, 174000, NaN}

\* Name arguments: the names of the table, the empty name, other names.
PresetNames == {Presets[i].Name : i \in 1..Len(Presets)} \cup {"", "foo", "DNB"}

CallPresetFromBPM(milli) ==
  /\ call' = [fn |-> "PresetFromBPM", bpm |-> milli, ret |-> PresetFromBPM(RoundCenti(milli))]
  /\ UNCHANGED <<file, fs, crashed, txVars, opVars, eachVars, legVars, refVars, expVars>>

CallPresetFromName(name) ==
  /\ call' = [fn |-> "PresetFromName", name |-> name, ret |-> PresetFromName(name)]
  /\ UNCHANGED <<file, fs, crashed, txVars, opVars, eachVars, legVars, refVars, expVars>>

InitPresets ==
  /\ file = JSONFile(<<>>)
  /\ fs = InitFs
  /\ crashed = FALSE
  /\ TxAtRest
  /\ OpsAtRest
  /\ EachAtRest
  /\ LegsAtRest
  /\ RefreshAtRest
  /\ ExportAtRest
  /\ CallAtRest

NextPresets ==
  \/ \E milli \in MilliBPMs : CallPresetFromBPM(milli)
  \/ \E name \in PresetNames : CallPresetFromName(name)

SpecPresets == InitPresets /\ [][NextPresets]_vars

\* C24: PresetFromBPM returns without error a preset whose range contains
\* the BPM rounded to two decimals and is no wider than any other range
\* that contains it; when no range contains it, PresetFromBPM returns the
\* default preset and an error.
C24_NarrowestPreset ==
  call.fn = "PresetFromBPM" =>
    LET r == IF call.bpm = NaN THEN NaN ELSE (call.bpm + 5) \div 10
        in == {i \in 1..Len(Presets) :
                 r # NaN /\ Presets[i].Min <= r /\ r <= Presets[i].Max} IN
    IF in = {}
    THEN call.ret = [preset |-> Presets[1], err |-> TRUE]
    ELSE /\ ~call.ret.err
         /\ \E i \in in :
              /\ call.ret.preset = Presets[i]
              /\ \A j \in in :
                   Presets[i].Max - Presets[i].Min <= Presets[j].Max - Presets[j].Min

\* C25: PresetFromName returns the preset of the table that carries the
\* name, without error; for a name no preset of the table carries, the
\* empty name included, it returns the default preset and an error.
C25_PresetByName ==
  call.fn = "PresetFromName" =>
    IF \E i \in 1..Len(Presets) : Presets[i].Name = call.name
    THEN /\ ~call.ret.err
         /\ call.ret.preset.Name = call.name
         /\ \E i \in 1..Len(Presets) : call.ret.preset = Presets[i]
    ELSE call.ret = [preset |-> Presets[1], err |-> TRUE]

\* PresetFromName has been called with a name that is not in the table.
C25_Witness ==
  /\ call.fn = "PresetFromName"
  /\ call.name = "foo"
  /\ call.ret.err /\ call.ret.preset.Name = "default"

(***************************************************************************)
(* The persisted format on its own: a stored array is decoded as           *)
(* withJSONFile decodes it and, when that succeeds, encoded again as       *)
(* withJSONFile encodes it.                                                *)
(***************************************************************************)
\* Longest stored array.
MaxStored == 2

\* The objects of a stored array: the preset may be empty, a name of the
\* table or another name; the hash may be empty.
StoredObjects ==
  [path : Paths, hash : {"", "h1"}, preset : {"", "default", "dnb", "foo"}, bpm : BPMs]

StoredArrays == UNION {[1..n -> StoredObjects] : n \in 0..MaxStored}

\* json.NewDecoder(file).Decode(&data), then json.NewEncoder(file).Encode of
\* the data as decoded.
CallDecode ==
  /\ call.fn = "Decode" /\ call.pc = "called"
  /\ call' = LET d == Decode(JSONFile(call.data)) IN
              [call EXCEPT !.pc = "returned", !.ret = d,
                           !.again = IF d.err THEN EmptyFile ELSE Encode(d.tracks)]
  /\ UNCHANGED <<file, fs, crashed, txVars, opVars, eachVars, legVars, refVars, expVars>>

\* The store holds one of the arrays.
InitFormat ==
  /\ file = JSONFile(<<>>)
  /\ fs = InitFs
  /\ crashed = FALSE
  /\ TxAtRest
  /\ OpsAtRest
  /\ EachAtRest
  /\ LegsAtRest
  /\ RefreshAtRest
  /\ ExportAtRest
  /\ \E js \in StoredArrays :
       call = [fn |-> "Decode", data |-> js, pc |-> "called",
               ret |-> [tracks |-> <<>>, err |-> TRUE], again |-> EmptyFile]

NextFormat == CallDecode

SpecFormat == InitFormat /\ [][NextFormat]_vars

\* C26 as stated: an array that decodes is encoded again as the same
\* array.
C26_RoundTrip ==
  (call.fn = "Decode" /\ call.pc = "returned" /\ ~call.ret.err) => call.again = JSONFile(call.data)

\* C26: an array that decodes is encoded again as an array of the same
\* length with, at each position, the same path, hash and bpm, and the
\* same preset name, but for an empty preset, which comes back as
\* "default".
C26_RoundTripButEmptyPreset ==
  (call.fn = "Decode" /\ call.pc = "returned" /\ ~call.ret.err) =>
    /\ call.again.kind = "json"
    /\ Len(call.again.tracks) = Len(call.data)
    /\ \A i \in 1..Len(call.data) :
         call.again.tracks[i] =
           [call.data[i] EXCEPT !.preset = IF @ = "" THEN "default" ELSE @]

\* An array of two tracks, one with a named preset and one with an empty
\* preset, has been decoded and encoded again.
C26_Witness ==
  /\ call.fn = "Decode" /\ call.pc = "returned" /\ ~call.ret.err
  /\ Len(call.data) = 2
  /\ call.data[1].preset = "dnb" /\ call.data[2].preset = ""
  /\ call.again.tracks[1] = call.data[1]
  /\ call.again.tracks[2] # call.data[2]

\* C27: an array whose presets are all empty or names of the table decodes
\* without error, and a track whose stored preset is empty decodes to a
\* track that carries the default preset and the stored path, hash and bpm.
C27_EmptyPresetIsDefault ==
  (call.fn = "Decode" /\ call.pc = "returned") =>
    /\ (\A i \in 1..Len(call.data) :
          call.data[i].preset = ""
          \/ \E k \in 1..Len(Presets) : Presets[k].Name = call.data[i].preset)
         => ~call.ret.err
    /\ ~call.ret.err =>
         \A i \in 1..Len(call.data) :
           call.data[i].preset = "" =>
             /\ call.ret.tracks[i].Preset = Presets[1]
             /\ call.ret.tracks[i].Preset.Name = "default"
             /\ call.ret.tracks[i].Path = call.data[i].path
             /\ call.ret.tracks[i].Hash = call.data[i].hash
             /\ call.ret.tracks[i].BPM = call.data[i].bpm

\* A track stored with an empty preset has been decoded.
C27_Witness ==
  /\ call.fn = "Decode" /\ call.pc = "returned" /\ ~call.ret.err
  /\ Len(call.data) = 1
  /\ call.data[1].preset = ""
  /\ call.ret.tracks[1].Preset.Name = "default"
  /\ call.ret.tracks[1].Path = "/m/b.flac"

(***************************************************************************)
(* The tempo estimator of package bpm: scan(nrg, min, max), one iteration  *)
(* of its loop over the intervals at a time.                               *)
(*                                                                         *)
(* An interval is counted in units of Rate*60/(Interval*min*max*Steps)     *)
(* energy points. In that unit bpmToInterval(max) is min*Steps,            *)
(* bpmToInterval(min) is max*Steps, step is max - min, and intervalToBpm   *)
(* of an interval x is the fraction min*max*Steps / x.                     *)
(***************************************************************************)
\* Steps, the number of steps between imax and imin (1024 in the source).
Steps == 8

\* The ranges scan is called with, in BPM.
ScanBPMs == {60, 120, 128, 138}

\* The sum of the Samples autodifferences of one interval: 0 on an empty
\* envelope, else whatever the random sampling makes of the envelope.
Sums == 0..2
PlusInf == 99

bpmToInterval(bpm, min, max) == (min * max * Steps) \div bpm

\* As a fraction, a numerator and a denominator; NaN for NaN.
intervalToBpm(interval, min, max) ==
  IF interval = NaN THEN <<NaN, 1>> ELSE <<min * max * Steps, interval>>

\* if t < height, and the same comparison letting the last of equals win.
LowerOrEqual(t, height) == t <= height
Lower(t, height) == t < height

ScanFrame == UNCHANGED <<file, fs, crashed, txVars, opVars, eachVars, legVars, refVars, expVars>>

\* One pass of the loop: the condition holds, t is summed, the lowest sum
\* so far keeps its interval, interval += step.
ScanIterate(t) ==
  /\ call.fn = "scan" /\ call.pc = "loop"
  /\ call.interval <= call.imin
  /\ call.empty => t = 0
  /\ call' = [call EXCEPT
       !.trough = IF Lower(t, call.height) THEN call.interval ELSE @,
       !.height = IF Lower(t, call.height) THEN t ELSE @,
       !.interval = @ + call.step,
       !.odd = ~@,
       !.seen = @ \cup {<<call.interval, t>>}]
  /\ ScanFrame

\* The condition of the loop fails: return intervalToBpm(trough).
ScanReturn ==
  /\ call.fn = "scan" /\ call.pc = "loop"
  /\ ~(call.interval <= call.imin)
  /\ call' = [call EXCEPT
       !.pc = "returned",
       !.ret = intervalToBpm(call.trough, call.min, call.max)]
  /\ ScanFrame

\* scan is called: imin, imax and step are computed, the loop starts at imax.
InitScan ==
  /\ file = JSONFile(<<>>)
  /\ fs = InitFs
  /\ crashed = FALSE
  /\ TxAtRest
  /\ OpsAtRest
  /\ EachAtRest
  /\ LegsAtRest
  /\ RefreshAtRest
  /\ ExportAtRest
  /\ \E min \in ScanBPMs, max \in ScanBPMs, empty \in BOOLEAN :
       /\ min <= max
       /\ call = [fn |-> "scan", min |-> min, max |-> max, empty |-> empty,
                  imin |-> bpmToInterval(min, min, max),
                  imax |-> bpmToInterval(max, min, max),
                  step |-> (bpmToInterval(min, min, max) - bpmToInterval(max, min, max))
                             \div Steps,
                  interval |-> bpmToInterval(max, min, max),
                  height |-> PlusInf, trough |-> NaN,
                  pc |-> "loop", ret |-> <<NaN, 1>>,
                  \* history: whether the loop has made an odd number of passes,
                  \* and the candidates visited, each with its sum
                  odd |-> FALSE, seen |-> {}]

NextScan ==
  \/ \E t \in Sums : ScanIterate(t)
  \/ ScanReturn

SpecScan == InitScan /\ [][NextScan]_vars

\* The loop goes on as long as it can.
SpecScanFair == SpecScan /\ WF_vars(NextScan)

\* C28: for every envelope, the empty one included, and every range with
\* min <= max, min = max included, scan returns, and the BPM it returns is
\* at least min and at most max.
C28_ScanInRange ==
  /\ [](call.pc = "returned" =>
         /\ call.ret[1] # NaN
         /\ call.min * call.ret[2] <= call.ret[1]
         /\ call.ret[1] <= call.max * call.ret[2])
  /\ (call.pc = "loop") ~> (call.pc = "returned")

(***************************************************************************)
(* The energy extractor of package bpm: energy(r), one binary.Read at a    *)
(* time, and what Scan makes of its result. The values of the envelope     *)
(* are left out; its length is kept.                                       *)
(***************************************************************************)
\* Interval, the number of samples per point of the envelope.
Interval == 128

\* Longest stream, in complete samples.
MaxSamples == 260

\* A stream: its complete float32 samples, the bytes of a truncated sample
\* after them, and the read at which the reader fails with an error of its
\* own (0 when it never does).
Streams ==
  [samples : 0..MaxSamples, tail : {0, 2}, failAt : {0, 1, Interval + 1}]

\* What binary.Read returns at the next sample: the error of the reader,
\* nil with a sample, io.EOF when not one byte is left, or
\* io.ErrUnexpectedEOF in the middle of a sample.
ReadErr(c) ==
  CASE c.failAt = c.pos + 1 -> "fail"
    [] c.pos < c.samples    -> "nil"
    [] c.tail = 0           -> "EOF"
    [] OTHER                -> "ErrUnexpectedEOF"

\* errors.Is(err, io.EOF)
AnyErr(e) == e # "nil"
IsEOF(e) == e = "EOF"

\* n == Interval
GroupOver(n) == n > Interval
GroupFull(n) == n = Interval

\* One pass of the loop of energy.
EnergyRead ==
  /\ call.fn = "energy" /\ call.pc = "read"
  /\ LET e == ReadErr(call) IN
     IF IsEOF(e)
     THEN call' = [call EXCEPT !.pc = "returned", !.err = FALSE,
                               !.res = [nil |-> FALSE, len |-> call.len]]
     ELSE IF e # "nil"
     THEN call' = [call EXCEPT !.pc = "returned", !.err = TRUE,
                               !.res = [nil |-> TRUE, len |-> 0]]
     ELSE call' = [call EXCEPT
            !.pos = @ + 1,
            !.n = IF GroupFull(call.n + 1) THEN 0 ELSE call.n + 1,
            !.len = IF GroupFull(call.n + 1) THEN @ + 1 ELSE @]
  /\ ScanFrame

\* Scan: the error of energy with a BPM of 0, or the BPM of scan.
ScanEnd ==
  /\ call.fn = "energy" /\ call.pc = "returned"
  /\ call' = [call EXCEPT !.pc = "Scan returned",
                          !.bpm = IF call.err THEN "0" ELSE "scan(nrg, min, max)"]
  /\ ScanFrame

InitEnergy ==
  /\ file = JSONFile(<<>>)
  /\ fs = InitFs
  /\ crashed = FALSE
  /\ TxAtRest
  /\ OpsAtRest
  /\ EachAtRest
  /\ LegsAtRest
  /\ RefreshAtRest
  /\ ExportAtRest
  /\ \E r \in Streams :
       call = [fn |-> "energy", samples |-> r.samples, tail |-> r.tail, failAt |-> r.failAt,
               pos |-> 0, n |-> 0, len |-> 0, pc |-> "read",
               err |-> FALSE, res |-> [nil |-> FALSE, len |-> 0], bpm |-> ""]

NextEnergy == EnergyRead \/ ScanEnd

SpecEnergy == InitEnergy /\ [][NextEnergy]_vars

\* The reader of the stream never fails, and the stream ends with a
\* complete sample.
WholeSamples == call.failAt \notin 1..(call.samples + 1) /\ call.tail = 0

\* C29: on a stream of exactly L complete samples, energy has at any time
\* emitted one point for each full group of 128 samples it has read, and
\* it returns without error an envelope of floor(L / 128) points.
C29_EnvelopeLength ==
  (call.fn = "energy" /\ WholeSamples) =>
    /\ call.len = call.pos \div 128
    /\ call.pc # "read" =>
         /\ ~call.err
         /\ ~call.res.nil
         /\ call.res.len = call.samples \div 128

\* energy has returned two points for a stream of two groups and one more
\* sample.
C29_Witness ==
  /\ call.fn = "energy" /\ call.pc = "returned"
  /\ WholeSamples
  /\ call.samples = 257
  /\ call.res = [nil |-> FALSE, len |-> 2]

\* C30: when the stream ends without a read having failed, energy returns
\* without error the envelope it has collected and Scan returns a BPM; when
\* a read fails before that, by an error of the reader or in the middle of
\* a sample, energy returns an error and no envelope, and Scan returns the
\* error and no BPM.
C30_EndIsNoError ==
  (call.fn = "energy" /\ call.pc # "read") =>
    /\ WholeSamples =>
         /\ ~call.err
         /\ call.res = [nil |-> FALSE, len |-> call.len]
         /\ call.pos = call.samples
         /\ call.pc = "Scan returned" => call.bpm # "0"
    /\ ~WholeSamples =>
         /\ call.err
         /\ call.res.nil
         /\ call.pc = "Scan returned" => call.bpm = "0"

\* The reader has failed after a first point of the envelope was
\* collected: Scan has returned the error, and neither envelope nor BPM.
C30_Witness ==
  /\ call.fn = "energy" /\ call.pc = "Scan returned"
  /\ call.failAt = 129 /\ call.samples >= 129
  /\ call.len = 1
  /\ call.err /\ call.res.nil /\ call.bpm = "0"

\* ---------------------------------------------------------------------
\* bpm.autodifference: the score of one trial of a candidate interval.
\* Weights are carried multiplied by 32 and non-beat offsets in quarters
\* of an interval, so that every quantity is an integer; the candidate
\* interval is a multiple of 4 points, which makes every offset a whole
\* number of points.

EnvLen == 9

beats == <<-32, -16, -8, -4, -2, -1, 1, 2, 4, 8, 16, 32>>

\* -0.5, -0.25, 0.25, 0.5 in quarters of an interval.
nobeats == <<-2, -1, 1, 2>>

Abs(x) == IF x < 0 THEN -x ELSE x

\* nrg is a sequence; the Go index n is the position n + 1.
sample(nrg, offset) ==
  IF offset >= 0 /\ offset < Len(nrg) THEN nrg[offset + 1] ELSE 0

\* The first loop of autodifference, run over the first n beats.
RECURSIVE BeatLoop(_, _, _, _)
BeatLoop(nrg, mid, interval, n) ==
  IF n = 0 THEN [diff |-> 0, total |-> 0]
  ELSE LET r == BeatLoop(nrg, mid, interval, n - 1)
           y == sample(nrg, mid + beats[n] * interval)
           v == sample(nrg, mid)
           w == 32 \div Abs(beats[n])
       IN  [diff |-> r.diff + w * Abs(y - v), total |-> r.total + w]

\* The second loop of autodifference, run over the first n non-beats.
RECURSIVE NobeatLoop(_, _, _, _)
NobeatLoop(nrg, mid, interval, n) ==
  IF n = 0 THEN [diff |-> 0, total |-> 0]
  ELSE LET r == NobeatLoop(nrg, mid, interval, n - 1)
           y == sample(nrg, mid + (nobeats[n] * interval) \div 4)
           v == sample(nrg, mid)
           w == 8 * Abs(nobeats[n])
       IN  [diff |-> r.diff - w * Abs(y - v), total |-> r.total + w]

\* The fraction diff / total, for mid the point drawn by rand.Float64.
autodifference(nrg, mid, interval) ==
  LET b == BeatLoop(nrg, mid, interval, Len(beats) \div 2)
      o == NobeatLoop(nrg, mid, interval, Len(nobeats) \div 2)
  IN  [diff |-> b.diff + o.diff, total |-> b.total + o.total]

Envelopes == [1..EnvLen -> {0, 1}]

TrialIntervals == {4, 8}

CallAutodifference ==
  /\ call.fn = "autodifference" /\ call.pc = "called"
  /\ call' = [call EXCEPT !.pc = "returned",
                          !.ret = autodifference(call.nrg, call.mid, call.interval)]
  /\ UNCHANGED <<file, fs, crashed, txVars, opVars, eachVars, legVars, refVars, expVars>>

InitAutodifference ==
  /\ file = MissingFile /\ fs = InitFs /\ crashed = FALSE
  /\ TxAtRest
  /\ OpsAtRest
  /\ EachAtRest
  /\ LegsAtRest
  /\ RefreshAtRest
  /\ ExportAtRest
  /\ \E nrg \in Envelopes, mid \in 0..(EnvLen - 1), interval \in TrialIntervals :
       call = [fn |-> "autodifference", nrg |-> nrg, mid |-> mid,
               interval |-> interval, pc |-> "called",
               ret |-> [diff |-> 0, total |-> 0]]

NextAutodifference == CallAutodifference

SpecAutodifference == InitAutodifference /\ [][NextAutodifference]_vars

\* The score with a contribution of every beat and every non-beat offset.
EveryOffset(nrg, mid, interval) ==
  LET b == BeatLoop(nrg, mid, interval, Len(beats))
      o == NobeatLoop(nrg, mid, interval, Len(nobeats))
  IN  [diff |-> b.diff + o.diff, total |-> b.total + o.total]

\* C31: the score autodifference returns is the sum, over every beat
\* offset +-1, +-2, +-4, +-8, +-16, +-32 intervals, of |y - v| weighted by
\* 1/|offset|, minus the sum, over every non-beat offset +-0.25, +-0.5
\* intervals, of |y - v| weighted by |offset|, divided by the total of the
\* weights, where an offset outside the envelope reads 0.
C31_EveryOffsetContributes ==
  (call.fn = "autodifference" /\ call.pc = "returned") =>
    LET e == EveryOffset(call.nrg, call.mid, call.interval)
    IN  call.ret.diff * e.total = e.diff * call.ret.total

\* C32: in each no goroutine sends on a closed channel, in any
\* interleaving and with or without a failing job: when the jobs channel
\* is closed the feeder has no track left to send, and when the sink
\* channel is closed every worker has exited.
C32_NoSendOnClosed ==
  /\ jobs.closed => ~(gPc.feeder = "send" /\ fIdx <= eLen)
  /\ sink.closed => \A w \in Worker : wPc[w] = "done"

\* C33: a batch whose jobs all terminate is never stuck, for every pool
\* size, 0 included, and every collection, non-empty included: as long as
\* Refresh has not returned, one of its goroutines can take a step.
C33_BatchNeverStuck ==
  rPc = "returned" \/ ENABLED NextRefresh

\* ---------------------------------------------------------------------
\* The exits of a transaction, those by a failing Truncate, Seek or Encode
\* included, under a fair scheduler.

\* file.Truncate, file.Seek or Encode returns an error: withJSONFile
\* returns it. A failing Truncate leaves the resource as it was; after
\* Truncate the resource is empty.
TxIOError(t) ==
  /\ txPc[t] \in {"transformed", "truncated"}
  /\ txRet' = [txRet EXCEPT ![t] = "io_error"]
  /\ txPc' = [txPc EXCEPT ![t] = "unlock"]
  /\ UNCHANGED <<file, fs, holders, txOp, txData, txOut, txEnv, txSnap, serial>>
  /\ UNCHANGED <<crashed, opVars, eachVars, legVars, refVars, expVars, call>>

NextLock == NextTx \/ \E t \in Tx : TxIOError(t)

\* Every step of a transaction that can be taken is taken; the
\* transformation terminates or the process ends; a transaction blocked in
\* flock is served when the lock is free again and again.
LockFairness ==
  \A t \in Tx :
    /\ WF_vars(TxDecode(t))
    /\ WF_vars(\E ext \in StubOutcomes :
                 \/ \E perm \in Perms(Len(txData[t])) : TxTransform(t, ext, perm)
                 \/ \E size \in PoolSizes : TxAbort(t, ext, size))
    /\ WF_vars(TxTruncate(t) \/ TxEncode(t) \/ TxIOError(t))
    /\ WF_vars(TxUnlock(t))
    /\ SF_vars(TxLock(t))

SpecLock == InitTx /\ [][NextLock]_vars /\ LockFairness

\* A transaction holds the lock from flock to its return.
HoldsLock(t) ==
  txPc[t] \in {"locked", "decoded", "transformed", "truncated", "unlock"}

\* C34: a transaction holds the lock only between its flock and its
\* return, whichever way it returns (success, decode error, error of the
\* transformation, of Truncate, of Seek or of Encode); a holder whose
\* transformation has terminated gives the lock back, and a transaction
\* that waits for the lock acquires it.
C34_LockReleased ==
  /\ [](holders = {t \in Tx : HoldsLock(t)})
  /\ \A t \in Tx :
       (t \in holders /\ txPc[t] \in {"transformed", "truncated", "unlock"})
         ~> (t \notin holders)
  /\ \A t \in Tx : (txPc[t] = "opened") ~> (txPc[t] = "locked")

\* The second transaction holds the lock on a collection that the first
\* one, which has returned, has written.
C34_Witness ==
  /\ txPc[1] = "idle" /\ txPc[2] = "locked" /\ holders = {2}
  /\ file.kind = "json" /\ file.tracks # <<>>

\* C35: List, Files and Compile leave the collection unchanged. The
\* transformation returns the collection it was handed; when the
\* transaction has succeeded the resource holds that collection, with the
\* same tracks, field values and order as decoded; when the transformation
\* has failed the resource is as it was when the lock was taken.
C35_ReadersKeepCollection ==
  \A t \in Tx :
    txOp[t].kind \in {"list", "files", "compile"} =>
      /\ txPc[t] \in {"transformed", "truncated"} => txOut[t] = txData[t]
      /\ txRet[t] = "ok" =>
           /\ file = Encode(txData[t])
           /\ Decode(file).tracks = txData[t]
           /\ Decode(file).tracks = Decode(txSnap[t]).tracks
      /\ txRet[t] = "f_error" => file = txSnap[t]

\* A Compile has succeeded on a store of two tracks: the resource holds
\* the same two tracks, byte for byte what it held when the lock was taken.
C35_Witness ==
  \E t \in Tx :
    /\ txOp[t].kind = "compile" /\ txRet[t] = "ok"
    /\ Len(txData[t]) = 2
    /\ file = Encode(txData[t])
    /\ file = txSnap[t]

\* C36: in track and convert no leg blocks on a send. A leg that has its
\* value or its error to deliver can deliver it at once, on a channel that
\* is open and has room, whatever its siblings have done and whichever of
\* them failed; and once every leg has finished, track or convert can
\* proceed until it has returned.
C36_LegsNeverBlock ==
  /\ ~crashed
  /\ \A l \in Leg :
       /\ legPc[l] = "sendval" => (~valCh[l].closed /\ ENABLED LegSendVal(l))
       /\ legPc[l] = "senderr" => (~errCh.closed /\ ENABLED LegSendErr(l))
  /\ (\A l \in Leg : legPc[l] = "done") =>
       (lPc = "returned" \/ ENABLED (WaitAndClose \/ RangeRecv \/ RangeEnd))

\* The three legs of convert have finished, the first two with an error,
\* before convert has received anything: the sink holds the three errors.
C36_Witness ==
  /\ lKind = "convert" /\ lPc = "wait"
  /\ \A l \in Leg : legPc[l] = "done"
  /\ errCh.buf = <<TRUE, TRUE, FALSE>>

\* ---------------------------------------------------------------------
\* Transactions on a store in which a track carries a preset name that is
\* not in the table.

\* A valid store with the preset name of one track replaced.
BrokenFiles ==
  UNION {{[f EXCEPT !.tracks[i].preset = "foo"] : i \in 1..Len(f.tracks)} :
           f \in StoredFiles}

InitBroken ==
  /\ file \in BrokenFiles \cup {JSONFile(<<>>)}
  /\ fs = InitFs
  /\ crashed = FALSE
  /\ TxAtRest
  /\ OpsAtRest
  /\ EachAtRest
  /\ LegsAtRest
  /\ RefreshAtRest
  /\ ExportAtRest
  /\ CallAtRest

SpecBroken == InitBroken /\ [][NextTx]_vars

\* A track of the resource carries a non-empty preset name that the table
\* does not have.
UnknownName(f) ==
  /\ f.kind = "json"
  /\ \E i \in 1..Len(f.tracks) :
       /\ f.tracks[i].preset # ""
       /\ \A k \in 1..Len(Presets) : Presets[k].Name # f.tracks[i].preset

\* C37: while a persisted track carries an unknown non-empty preset name,
\* no transaction decodes a collection: each one, whatever its operation,
\* goes from the lock to its return with a decode error, no step of any
\* transaction changes the resource, and no track with the default preset
\* in place of the unknown name is ever handed to a transformation.
C37_UnknownPresetFails ==
  /\ [](UnknownName(file) =>
         \A t \in Tx :
           /\ txPc[t] \in {"idle", "opened", "locked", "unlock"}
           /\ txPc[t] = "unlock" => txRet[t] = "decode_error"
           /\ txData[t] = <<>> /\ txOut[t] = <<>>)
  /\ [][UnknownName(file) => (file' = file)]_vars

\* A Prune and a Compile have both failed to decode a store of two tracks
\* of which the second carries the name foo, and the store is as it was.
C37_Witness ==
  /\ UnknownName(file) /\ Len(file.tracks) = 2 /\ file.tracks[2].preset = "foo"
  /\ txOp[1].kind = "prune" /\ txPc[1] = "unlock" /\ txRet[1] = "decode_error"
  /\ txOp[2].kind = "compile" /\ txPc[2] = "opened"
  /\ file = txSnap[1]

\* The candidates of the grid: imax, imax + step, ..., imin.
Grid == {call.imax + k * call.step : k \in 0..Steps}

\* The lowest sum among the candidates visited, and the first candidate
\* visited, the smallest interval, that has it.
LowestSum == CHOOSE t \in {p[2] : p \in call.seen} : \A p \in call.seen : t <= p[2]
FirstLowest ==
  CHOOSE i \in {p[1] : p \in call.seen} :
    /\ <<i, LowestSum>> \in call.seen
    /\ \A p \in call.seen : p[2] = LowestSum => i <= p[1]

\* C38: when scan returns it has visited every candidate of the grid from
\* intervalOf(max) to intervalOf(min) and no other interval, and it returns
\* the BPM of the candidate with the lowest sum, of the first one visited
\* (the smallest interval, the highest BPM) when several have that sum; on
\* an empty envelope, where every sum is 0, it returns max.
C38_LowestFirstWins ==
  (call.fn = "scan" /\ call.pc = "returned") =>
    /\ {p[1] : p \in call.seen} = Grid
    /\ \A i \in Grid : call.imax <= i /\ i <= call.imin
    /\ call.ret = intervalToBpm(FirstLowest, call.min, call.max)
    /\ call.ret[2] \in Grid
    /\ call.empty => call.ret[1] = call.max * call.ret[2]

\* scan has returned the BPM of the third candidate for the range 60 to
\* 128: the two candidates before it had the sums 2 and 1, it was the
\* first with the sum 0, and a later candidate had the sum 0 as well.
C38_Witness ==
  /\ call.fn = "scan" /\ call.pc = "returned"
  /\ call.min = 60 /\ call.max = 128 /\ ~call.empty
  /\ call.ret = <<60 * 128 * Steps, call.imax + 2 * call.step>>
  /\ <<call.imax, 2>> \in call.seen
  /\ <<call.imax + call.step, 1>> \in call.seen
  /\ <<call.imax + 2 * call.step, 0>> \in call.seen
  /\ \E p \in call.seen : p[2] = 0 /\ p[1] > call.ret[2]

====
